---- MODULE Spec2Model ----
(***************************************************************************)
(* The WorkflowRunner of src/src/workflow.ts as a state machine.           *)
(*                                                                         *)
(* `state` is the runner's this.state.  Every asynchronous operation       *)
(* (run, runFrom, runStep1..runStep6) is a call: `call[c]` holds its       *)
(* position (the await it is suspended at) and its locals, `trace[c]` the  *)
(* history of what it did to the outside world: the transport calls it     *)
(* issued and the callbacks it invoked, each with the moment it settled.   *)
(* One action is one synchronous stretch of code, from one await to the    *)
(* next.  The transport and the caller-supplied callbacks are the          *)
(* environment: each call and each callback may succeed or fail.           *)
(***************************************************************************)
EXTENDS Integers, Sequences, FiniteSets, TLC

VARIABLES state, call, trace, ops, retry, failure, webhook, helper, poll, mem

\* The runner (state, call, trace, ops), one execution of withRetry (retry),
\* one failure handed to handleError (failure), one webhook payload handed to
\* parseWebhookEvent (webhook).
vars == <<state, call, trace, ops, retry, failure, webhook, helper, poll, mem>>

runnerVars == <<state, call, trace, ops>>

\* ------------------------------------------------------------------ bounds

\* Most required sides an SR fetched from the server carries.
MaxSides == 2

\* Most asynchronous operations (run, runFrom, runStepN) started in one behaviour.
MaxOps == 1

\* Largest `attempts` option given to withRetry.
MaxAttempts == 4

\* Upper bound on the number of runStepN calls on an existing SR.
MaxStepOps == 3

\* The longest time waitForRequirements is followed for, in clock ticks: a
\* clock that far from the start stands for any later time.
MaxElapsed == 4

\* Most run() calls made one after the other on one runner.
MaxRuns == 2

\* Most operations applied to the runner's state object in one behaviour.
MaxWrites == 5

\* ------------------------------------------------------------------ values

\* JavaScript's undefined: an optional field that is absent.
NoVal == "undefined"

\* The calls that may be pending on one runner.
Calls == {1, 2}

\* The SR UUID the server gives to the SR created by call c.
CreatedUuid(c) == IF c = 1 THEN "sr-1" ELSE "sr-2"

\* The SR UUIDs a caller hands to setSrUuid: an SR created elsewhere.
ExternalUuids == {"sr-x"}

\* !value of a string
Falsy(s) == s = NoVal \/ s = ""

INITIAL_STEP_NAME == "Not Started"

WORKFLOW_STEP_NAMES ==
  << "Get Taxonomy", "Create Service Request", "Get Requirements",
     "Upload Images", "Check Progress", "Submit" >>

TOTAL_STEPS == Len(WORKFLOW_STEP_NAMES)

\* The transport call of each step but step 4, whose calls are the uploads.
StepCall ==
  << "getTree", "create", "getWithRequirements", "uploadForSide",
     "getProgress", "submit" >>

\* ------------------------------------------------------------------ errors

\* data?.error of a response body that has none.
NoDetails == [defined |-> FALSE, message |-> NoVal, hasErrors |-> FALSE, errors |-> <<>>]

\* A raw failure that is not there: the cause of an error that has none.
\* kind: "axios" for an AxiosError, "other" for any other thrown value.
\* status is <<>> when there is no response, <<n>> for response.status = n.
NoCause ==
  [ kind |-> "undefined", message |-> NoVal, code |-> NoVal, status |-> <<>>,
    details |-> NoDetails, xRequestId |-> NoVal, xAmznRequestId |-> NoVal ]

\* The context {} of a LegitmarkError.
EmptyContext ==
  [ statusCode |-> <<>>, endpoint |-> NoVal, requestId |-> NoVal, details |-> NoDetails ]

NoErr ==
  [ code |-> "none", message |-> "", isRetryable |-> FALSE, suggestions |-> <<>>,
    context |-> EmptyContext, cause |-> NoCause ]

\* new LegitmarkError(code, message, options)
LegitmarkError(code, message, options) ==
  [ code |-> code,
    message |-> message,
    context |-> IF "context" \in DOMAIN options THEN options.context ELSE EmptyContext,
    isRetryable |-> IF "isRetryable" \in DOMAIN options THEN options.isRetryable ELSE FALSE,
    suggestions |-> IF "suggestions" \in DOMAIN options THEN options.suggestions ELSE <<>>,
    cause |-> IF "cause" \in DOMAIN options THEN options.cause ELSE NoCause ]

\* What a failed transport call rejects with: the transport has classified it.
TransportErrors ==
  { LegitmarkError("NETWORK_ERROR", "Network Error",
      [ isRetryable |-> TRUE,
        suggestions |-> << "Check your internet connection",
                           "Verify the API URL is correct" >> ]) }

\* What a failing caller-supplied callback throws: a plain Error.
CallbackErrors ==
  { [code |-> "Error", message |-> "callback failed", isRetryable |-> FALSE,
     suggestions |-> <<>>, context |-> EmptyContext, cause |-> NoCause] }

\* error instanceof Error ? error.message : String(error)
ErrorMessage(e) == e.message

\* ------------------------------------------------------------------ data

NoSr ==
  [ defined |-> FALSE, uuid |-> NoVal, hasRequired |-> FALSE, required |-> <<>>,
    optional |-> <<>> ]

NoProgress ==
  [ defined |-> FALSE, current_required |-> 0, total_required |-> 0,
    current_optional |-> 0, total_optional |-> 0, met |-> FALSE ]

Progress(cur, tot, met) ==
  [ defined |-> TRUE, current_required |-> cur, total_required |-> tot,
    current_optional |-> 0, total_optional |-> 0, met |-> met ]

\* The required sides of an SR in server order: side n first, side 1 last.
ServerSides(n) == [i \in 1..n |-> n + 1 - i]

\* A side that is in sides.optional only.
OptionalSide == MaxSides + 1

\* A side that is in requirements.side_groups only.
GroupSide == MaxSides + 2

\* The sides of requirements.side_groups.
GroupSides(requirements) == IF requirements = NoVal THEN <<>> ELSE << GroupSide >>

\* The sides of a fetched SR: absent, or with sides.optional and with
\* sides.required empty or of MaxSides sides.
RequiredShapes ==
  { [hasRequired |-> FALSE, required |-> <<>>, optional |-> <<>>] }
    \cup { [hasRequired |-> TRUE, required |-> ServerSides(n), optional |-> << OptionalSide >>] :
             n \in {0, MaxSides} }

\* The SRs the server may answer the requirements fetch of `uuid` with: with
\* requirements and any sides.required, or without requirements and with
\* no sides or with all of them.
FetchedSrs(uuid) ==
  { [ sr |-> [defined |-> TRUE, uuid |-> uuid, hasRequired |-> s.hasRequired,
              required |-> s.required, optional |-> s.optional],
      requirements |-> q ] :
      s \in RequiredShapes, q \in {NoVal, "requirements"} }
    \ { f \in [ sr : [defined : {TRUE}, uuid : {uuid}, hasRequired : {TRUE},
                        required : {<<>>}, optional : {<< OptionalSide >>}],
                 requirements : {NoVal} ] : TRUE }

\* The sides.progress of the server's answer to a sides fetch (absent or present).
ServerProgress ==
  { NoProgress, Progress(MaxSides - 1, MaxSides, FALSE), Progress(MaxSides, MaxSides, TRUE) }

createInitialState ==
  [ step |-> 0,
    stepName |-> INITIAL_STEP_NAME,
    sr_uuid |-> NoVal,
    taxonomy |-> NoVal,
    sr |-> NoSr,
    requirements |-> NoVal,
    uploadedSides |-> <<>>,
    progress |-> NoProgress,
    completed |-> FALSE,
    errors |-> <<>> ]

\* { ...this.state }
getState(st) == st

\* ------------------------------------------------------------- the runner

\* updateState(step, stepName)
updateState(st, step, stepName) == [st EXCEPT !.step = step, !.stepName = stepName]

\* assertSrUuid with a fault: only the empty string counts as missing.
assertSrUuid_EmptyOnly(st, context) ==
  IF st.sr_uuid = ""
  THEN LegitmarkError("WORKFLOW_ERROR",
         context \o ": No SR UUID in state. Run Step 2 first.",
         [suggestions |-> << "Call runStep2() before this step" >>])
  ELSE NoErr

\* assertSrUuid(context): the error it throws, NoErr when it passes.
assertSrUuid(st, context) ==
  IF Falsy(st.sr_uuid)
  THEN LegitmarkError("WORKFLOW_ERROR",
         context \o ": No SR UUID in state. Run Step 2 first.",
         [suggestions |-> << "Call runStep2() before this step" >>])
  ELSE NoErr

\* assertRequirements with a fault: the error carries no suggestions.
assertRequirements_Bare(st, context) ==
  IF st.requirements = NoVal
  THEN LegitmarkError("WORKFLOW_ERROR",
         context \o ": No requirements in state. Run Step 3 first.",
         [cause |-> NoCause])
  ELSE NoErr

\* assertRequirements(context)
assertRequirements(st, context) ==
  IF st.requirements = NoVal
  THEN LegitmarkError("WORKFLOW_ERROR",
         context \o ": No requirements in state. Run Step 3 first.",
         [suggestions |-> << "Call runStep3() before this step" >>])
  ELSE NoErr

\* NotMetMessage with a fault: the two counts are exchanged.
NotMetMessage_Exchanged(context, progress) ==
  context \o ": Requirements not met. Uploaded "
    \o ToString(progress.total_required) \o "/"
    \o ToString(progress.current_required) \o " required images."

\* The message of assertRequirementsMet.
NotMetMessage(context, progress) ==
  context \o ": Requirements not met. Uploaded "
    \o ToString(progress.current_required) \o "/"
    \o ToString(progress.total_required) \o " required images."

\* assertRequirementsMet with a fault: it never throws.
assertRequirementsMet_Never(st, context) == NoErr

\* assertRequirementsMet(context)
assertRequirementsMet(st, context) ==
  IF st.progress.defined /\ ~st.progress.met
  THEN LegitmarkError("WORKFLOW_ERROR", NotMetMessage(context, st.progress),
         [suggestions |-> << "Ensure all required images are uploaded",
                             "Check that getImageForSide callback returns data for all sides" >>])
  ELSE NoErr

\* The first of two assertions that throws.
FirstErr(e1, e2) == IF e1 # NoErr THEN e1 ELSE e2

\* The assertions runStepN makes before it touches the state: the error
\* thrown, NoErr when they all pass.
StepPrecondition(st, k) ==
  CASE k = 3 -> assertSrUuid(st, "Step 3")
    [] k = 4 -> FirstErr(assertSrUuid(st, "Step 4"), assertRequirements(st, "Step 4"))
    [] k = 5 -> assertSrUuid(st, "Step 5")
    [] k = 6 -> FirstErr(assertSrUuid(st, "Step 6"), assertRequirementsMet(st, "Step 6"))
    [] OTHER -> NoErr

\* getAllRequiredSides with a fault: the optional sides are taken too.
getAllRequiredSides_WithOptional(st) ==
  IF ~st.sr.defined \/ ~st.sr.hasRequired \/ Len(st.sr.required) = 0
  THEN <<>>
  ELSE st.sr.required \o st.sr.optional

\* getAllRequiredSides(): the uuids of state.sr.sides.required, in its order.
getAllRequiredSides(st) ==
  IF ~st.sr.defined \/ ~st.sr.hasRequired \/ Len(st.sr.required) = 0
  THEN <<>>
  ELSE st.sr.required

\* ServiceRequests.getProgress: the progress of the sides fetch, or the default.
getProgress(serverProgress) ==
  IF ~serverProgress.defined
  THEN Progress(0, 0, FALSE)
  ELSE serverProgress

\* RunPlan with a fault: the submission comes before the progress check.
RunPlan_SubmitEarly(skipTaxonomy, skipSubmit) ==
  (IF ~skipTaxonomy THEN <<1>> ELSE <<>>) \o <<2, 3, 4>>
    \o (IF ~skipSubmit THEN <<6>> ELSE <<>>) \o <<5>>

\* The steps run(request, options) executes, in order.
RunPlan(skipTaxonomy, skipSubmit) ==
  (IF ~skipTaxonomy THEN <<1>> ELSE <<>>) \o <<2, 3, 4, 5>>
    \o (IF ~skipSubmit THEN <<6>> ELSE <<>>)

\* RunFromPlan with a fault: skipSubmit is not looked at.
RunFromPlan_Submits(fromStep, skipTaxonomy, skipSubmit) ==
  LET Skipped(k) == k = 1 /\ skipTaxonomy
      All == [i \in 1..(TOTAL_STEPS + 1 - fromStep) |-> fromStep + i - 1]
  IN  SelectSeq(All, LAMBDA k : ~Skipped(k))

\* The steps the loop of runFrom(fromStep, request, options) executes, in order.
RunFromPlan(fromStep, skipTaxonomy, skipSubmit) ==
  LET Skipped(k) == (k = 1 /\ skipTaxonomy) \/ (k = 6 /\ skipSubmit)
      All == [i \in 1..(TOTAL_STEPS + 1 - fromStep) |-> fromStep + i - 1]
  IN  SelectSeq(All, LAMBDA k : ~Skipped(k))

\* The error runFrom throws before its try block, NoErr when it enters it.
RunFromPrecondition(st, fromStep, hasRequest) ==
  IF fromStep <= 2 /\ ~hasRequest
  THEN LegitmarkError("WORKFLOW_ERROR",
         "Cannot start from step " \o ToString(fromStep) \o " ("
           \o WORKFLOW_STEP_NAMES[fromStep] \o ") without a CreateSRRequest",
         [suggestions |-> << "Provide the request", "Or start from step 3+ if you have an existing SR UUID" >>])
  ELSE IF fromStep > 2 /\ Falsy(st.sr_uuid)
  THEN LegitmarkError("WORKFLOW_ERROR",
         "Cannot start from step " \o ToString(fromStep) \o " ("
           \o WORKFLOW_STEP_NAMES[fromStep] \o "): no SR UUID in state",
         [suggestions |-> << "Set the SR UUID first", "Or run from step 1 or 2 to create a new SR",
                             "Example" >>])
  ELSE NoErr

\* ------------------------------------------------------------ the history

\* One entry of a call's history.  kind: "cb" a callback is invoked, "cbEnd"
\* it settled, "call" a transport call is issued, "ret" it settled.  step and
\* stepName are those of the runStepN at work, sr and side the SR UUID and
\* side a transport call is given.  err is the error a callback is handed
\* ("cb") or the one the callback or transport call failed with ("cbEnd",
\* "ret"), NoErr when it succeeded.
Ev(kind, name, step, sr, side, err, info) ==
  [ kind |-> kind, name |-> name, step |-> step, stepName |-> WORKFLOW_STEP_NAMES[step],
    sr |-> sr, side |-> side, err |-> err, info |-> info ]

Invoke(cb, k, side, err, info) == Ev("cb", cb, k, NoVal, side, err, info)
Settle(cb, k, err) == Ev("cbEnd", cb, k, NoVal, 0, err, <<>>)
\* getImageForSide has returned: info is <<1>> for image data, <<0>> for none.
Supply(k, hasData) ==
  Ev("cbEnd", "getImageForSide", k, NoVal, 0, NoErr, << IF hasData THEN 1 ELSE 0 >>)
Issue(name, k, sr, side) == Ev("call", name, k, sr, side, NoErr, <<>>)
Answer(name, k, err) == Ev("ret", name, k, NoVal, 0, err, <<>>)

\* --------------------------------------------------------------- one call

\* A call that has not been made.  fresh and startUuid remember the runner
\* at the moment of the call: whether its state was the initial one, and its
\* sr_uuid; startUploaded remembers its uploadedSides when a step is called
\* on its own.
NoCall ==
  [ op |-> "none", pc |-> "idle", fresh |-> FALSE, startUuid |-> NoVal,
    startUploaded |-> <<>>,
    fromStep |-> 0, hasRequest |-> FALSE,
    skipTaxonomy |-> FALSE, skipSubmit |-> FALSE, plan |-> <<>>, step |-> 0,
    err |-> NoErr, arg |-> NoVal, required |-> <<>>, idx |-> 0,
    uploadedSides |-> <<>>, result |-> <<>> ]

\* The outcome of one synchronous stretch of a call: the runner's state
\* after it, the call's locals and position after it, what it did.
Outcome(st, cl, events) == [state |-> st, call |-> cl, events |-> events]

\* CatchInStep with a fault: the error is wrapped in a new one.
CatchInStep_Wrapped(st, cl, e) ==
  LET w == LegitmarkError("WORKFLOW_ERROR", "Step failed: " \o e.message, [suggestions |-> <<>>])
  IN  Outcome(st, [cl EXCEPT !.pc = "onStepError", !.err = w],
              << Invoke("onStepError", cl.step, 0, w, <<>>) >>)

\* CatchInStep with a fault: the error is rethrown without onStepError.
CatchInStep_Silent(st, cl, e) ==
  Outcome(st, [cl EXCEPT !.pc = "stepThrew", !.err = e], <<>>)

\* The catch block of runStepN: invoke onStepError with the error.
CatchInStep(st, cl, e) ==
  Outcome(st, [cl EXCEPT !.pc = "onStepError", !.err = e],
          << Invoke("onStepError", cl.step, 0, e, <<>>) >>)

\* The end of runStepN's try block: invoke onStepComplete.
CompleteStep(st, cl, info) ==
  Outcome(st, [cl EXCEPT !.pc = "onStepComplete"],
          << Invoke("onStepComplete", cl.step, 0, NoErr, info) >>)

\* CatchInRun with a fault: the error is rethrown and its message not recorded.
CatchInRun_NotRecorded(st, cl) == Outcome(st, [cl EXCEPT !.pc = "threw"], <<>>)

\* The catch block of run / runFrom: record the message, rethrow.  A
\* runStepN called on its own has no such block: its caller gets the error.
CatchInRun(st, cl) ==
  IF cl.op = "runStep"
  THEN Outcome(st, [cl EXCEPT !.pc = "threw"], <<>>)
  ELSE Outcome([st EXCEPT !.errors = Append(st.errors, ErrorMessage(cl.err))],
               [cl EXCEPT !.pc = "threw"], <<>>)

\* UploadLoop with a fault: the uploaded sides are added to the list in the
\* state.
UploadLoop_Appends(st, cl) ==
  IF cl.idx > Len(cl.required)
  THEN CompleteStep([st EXCEPT !.uploadedSides = @ \o cl.uploadedSides], cl,
                    << Len(cl.uploadedSides), Len(cl.required) >>)
  ELSE Outcome(st, [cl EXCEPT !.pc = "onUploadProgress"],
               << Invoke("onUploadProgress", cl.step, cl.required[cl.idx], NoErr,
                         << Len(cl.uploadedSides), Len(cl.required) >>) >>)

\* Step 4's loop at side cl.idx: onUploadProgress for it, or, after the last
\* side, the store of uploadedSides and onStepComplete.
UploadLoop(st, cl) ==
  IF cl.idx > Len(cl.required)
  THEN CompleteStep([st EXCEPT !.uploadedSides = cl.uploadedSides], cl,
                    << Len(cl.uploadedSides), Len(cl.required) >>)
  ELSE Outcome(st, [cl EXCEPT !.pc = "onUploadProgress"],
               << Invoke("onUploadProgress", cl.step, cl.required[cl.idx], NoErr,
                         << Len(cl.uploadedSides), Len(cl.required) >>) >>)

\* StepBody with a fault: the SR UUID is read from state.sr, not state.sr_uuid.
StepBody_SrField(st, cl) ==
  IF cl.step = 4
  THEN UploadLoop(st, [cl EXCEPT !.required = getAllRequiredSides(st),
                                 !.uploadedSides = <<>>, !.idx = 1])
  ELSE LET uuid == IF cl.step <= 2 THEN NoVal ELSE st.sr.uuid
       IN  Outcome(st, [cl EXCEPT !.pc = "transport", !.arg = uuid],
                   << Issue(StepCall[cl.step], cl.step, uuid, 0) >>)

\* runStepN after onStepStart has resolved: the transport call of the step,
\* for step 4 the start of the loop over getAllRequiredSides().
StepBody(st, cl) ==
  IF cl.step = 4
  THEN UploadLoop(st, [cl EXCEPT !.required = getAllRequiredSides(st),
                                 !.uploadedSides = <<>>, !.idx = 1])
  ELSE LET uuid == IF cl.step <= 2 THEN NoVal ELSE st.sr_uuid
       IN  Outcome(st, [cl EXCEPT !.pc = "transport", !.arg = uuid],
                   << Issue(StepCall[cl.step], cl.step, uuid, 0) >>)

\* EnterStep with a fault: onStepStart is fired and not awaited, the step's
\* body starts at once.
EnterStep_NotAwaited(st, cl, k) ==
  LET e == StepPrecondition(st, k)
      r == StepBody(updateState(st, k, WORKFLOW_STEP_NAMES[k]), [cl EXCEPT !.step = k])
  IN  IF e # NoErr
      THEN Outcome(st, [cl EXCEPT !.pc = "stepThrew", !.step = k, !.err = e], <<>>)
      ELSE [r EXCEPT !.events = << Invoke("onStepStart", k, 0, NoErr, <<>>) >> \o @]

\* EnterStep with a fault: updateState comes before the assertions.
EnterStep_UpdatesFirst(st, cl, k) ==
  LET e == StepPrecondition(st, k)
      updated == updateState(st, k, WORKFLOW_STEP_NAMES[k])
  IN  IF e # NoErr
      THEN Outcome(updated, [cl EXCEPT !.pc = "stepThrew", !.step = k, !.err = e], <<>>)
      ELSE Outcome(updated, [cl EXCEPT !.pc = "onStepStart", !.step = k],
                   << Invoke("onStepStart", k, 0, NoErr, <<>>) >>)

\* runStepN up to its first await: the assertions, updateState, onStepStart.
\* A failed assertion rejects runStepN's promise before the state is touched.
EnterStep(st, cl, k) ==
  LET e == StepPrecondition(st, k) IN
  IF e # NoErr
  THEN Outcome(st, [cl EXCEPT !.pc = "stepThrew", !.step = k, !.err = e], <<>>)
  ELSE Outcome(updateState(st, k, WORKFLOW_STEP_NAMES[k]),
               [cl EXCEPT !.pc = "onStepStart", !.step = k],
               << Invoke("onStepStart", k, 0, NoErr, <<>>) >>)

\* run / runFrom after their last step: completed = true, return getState().
\* A runStepN called on its own just returns.
Finish(st, cl) ==
  IF cl.op = "runStep"
  THEN Outcome(st, [cl EXCEPT !.pc = "returned"], <<>>)
  ELSE LET done == [st EXCEPT !.completed = TRUE]
       IN  Outcome(done, [cl EXCEPT !.pc = "returned", !.result = << getState(done) >>], <<>>)

\* The body of run / the loop of runFrom: call the next step, or finish.
Drive(st, cl) ==
  IF cl.plan = <<>>
  THEN Finish(st, cl)
  ELSE EnterStep(st, [cl EXCEPT !.plan = Tail(cl.plan)], Head(cl.plan))

\* Step 4 after getImageForSide returned: the upload when there is image data.
AfterImage(st, cl, hasData) ==
  IF hasData
  THEN Outcome(st, [cl EXCEPT !.pc = "upload", !.arg = st.sr_uuid],
               << Issue("uploadForSide", cl.step, st.sr_uuid, cl.required[cl.idx]) >>)
  ELSE UploadLoop(st, [cl EXCEPT !.idx = cl.idx + 1])

\* Step 4 after an upload succeeded: record the side, go on with the next.
AfterUpload(st, cl) ==
  UploadLoop(st, [cl EXCEPT !.uploadedSides = Append(cl.uploadedSides, cl.required[cl.idx]),
                            !.idx = cl.idx + 1])

\* What runStepN stores when its transport call has succeeded.
StoreResult(st, k, res) ==
  CASE k = 1 -> [st EXCEPT !.taxonomy = res.taxonomy]
    [] k = 2 -> [st EXCEPT !.sr_uuid = res.sr.uuid, !.sr = res.sr]
    [] k = 3 -> [st EXCEPT !.sr = res.sr, !.requirements = res.requirements]
    [] k = 5 -> [st EXCEPT !.progress = res.progress]
    [] OTHER -> st

\* The answers the transport may give to the call of step k that call c
\* made for the SR `uuid`.
Results(c, k, uuid) ==
  CASE k = 1 -> { [taxonomy |-> "tree"] }
    [] k = 2 -> { [sr |-> [defined |-> TRUE, uuid |-> CreatedUuid(c),
                           hasRequired |-> FALSE, required |-> <<>>, optional |-> <<>>]] }
    [] k = 3 -> FetchedSrs(uuid)
    [] k = 5 -> { [progress |-> getProgress(p)] : p \in ServerProgress }
    [] OTHER -> { [submitted |-> TRUE] }

\* run(request, options) up to its first await.
run(st, cl) == Drive(st, cl)

\* runFrom with a fault: the two checks before the try block are left out.
runFrom_Unchecked(st, cl) == Drive(st, cl)

\* runFrom(fromStep, request, options) up to its first await: the two checks
\* made before the try block, then the loop.
runFrom(st, cl) ==
  LET e == RunFromPrecondition(st, cl.fromStep, cl.hasRequest) IN
  IF e # NoErr
  THEN Outcome(st, [cl EXCEPT !.pc = "threw", !.err = e], <<>>)
  ELSE Drive(st, cl)

\* setSrUuid(srUuid)
setSrUuid(st, srUuid) == [st EXCEPT !.sr_uuid = srUuid]

\* reset()
reset(st) == createInitialState

\* --------------------------------------------------------------- withRetry

DEFAULT_RETRY_ATTEMPTS == 3

DEFAULT_RETRY_DELAY_MS == 1000

RETRY_BACKOFF_MULTIPLIER == 2

\* The codes of LegitmarkErrorCode.
LegitmarkErrorCodes ==
  { "CONFIGURATION_ERROR", "NETWORK_ERROR", "TIMEOUT_ERROR", "AUTHENTICATION_ERROR",
    "VALIDATION_ERROR", "NOT_FOUND_ERROR", "RATE_LIMIT_ERROR", "SERVER_ERROR",
    "UPLOAD_ERROR", "WORKFLOW_ERROR", "UNKNOWN_ERROR" }

\* error instanceof LegitmarkError
IsLegitmarkError(e) == e.code \in LegitmarkErrorCodes

\* A thrown value that is no LegitmarkError, with an isRetryable property.
PlainError(message, isRetryable) ==
  [ code |-> "Error", message |-> message, isRetryable |-> isRetryable,
    suggestions |-> <<>>, context |-> EmptyContext, cause |-> NoCause ]

\* What the operation given to withRetry may reject with: two retryable
\* LegitmarkErrors, one that is not retryable, and a plain error that
\* claims to be retryable.
FnErrors ==
  { LegitmarkError("TIMEOUT_ERROR", "timed out", [isRetryable |-> TRUE]),
    LegitmarkError("NETWORK_ERROR", "Network Error", [isRetryable |-> TRUE]),
    LegitmarkError("VALIDATION_ERROR", "invalid", [isRetryable |-> FALSE]),
    PlainError("boom", TRUE) }

\* What the operation given to withRetry may resolve with.
FnValues == {"result-a", "result-b"}

\* The delay options given to withRetry.
Delays == {DEFAULT_RETRY_DELAY_MS, 250}

\* The shouldRetry options: the default, or a caller's predicate that accepts
\* every error or none.
Predicates == {"default", "always", "never"}

\* shouldRetry with a fault: the default does not look at the error's class.
shouldRetry_AnyClass(predicate, e) ==
  CASE predicate = "default" -> e.isRetryable
    [] predicate = "always" -> TRUE
    [] OTHER -> FALSE

\* shouldRetry(error)
shouldRetry(predicate, e) ==
  CASE predicate = "default" -> IsLegitmarkError(e) /\ e.isRetryable
    [] predicate = "always" -> TRUE
    [] OTHER -> FALSE

\* waitTime with a fault: the exponent is the attempt, not the attempt less one.
waitTime_OneMore(delay, exponentialBackoff, attempt) ==
  IF exponentialBackoff
  THEN delay * RETRY_BACKOFF_MULTIPLIER ^ attempt
  ELSE delay

\* waitTime after the failed attempt `attempt`.
waitTime(delay, exponentialBackoff, attempt) ==
  IF exponentialBackoff
  THEN delay * RETRY_BACKOFF_MULTIPLIER ^ (attempt - 1)
  ELSE delay

\* One entry of the history of a withRetry execution.  kind: "fn" the
\* operation is invoked, "ok" it resolved with value, "fail" it rejected with
\* err, "onRetry" the callback is called with (err, attempt), "wait" the timer
\* is set to ms.
RetryEv(kind, attempt, err, ms, value) ==
  [kind |-> kind, attempt |-> attempt, err |-> err, ms |-> ms, value |-> value]

\* withRetry before it is called.  pc: "fn" awaiting the operation, "wait"
\* awaiting the timer, "resolved" / "rejected" settled with value / error.
NoRetry ==
  [ pc |-> "idle", attempts |-> 0, delay |-> 0, exponentialBackoff |-> FALSE,
    shouldRetry |-> "default", hasOnRetry |-> FALSE, attempt |-> 0,
    lastError |-> NoErr, value |-> NoVal, error |-> NoErr, log |-> <<>> ]

\* The head of the for loop: invoke the operation, or leave the loop and throw
\* lastError.
RetryLoop(r) ==
  IF r.attempt <= r.attempts
  THEN [r EXCEPT !.pc = "fn",
                 !.log = Append(@, RetryEv("fn", r.attempt, NoErr, 0, NoVal))]
  ELSE [r EXCEPT !.pc = "rejected", !.error = r.lastError]

\* withRetry(fn, options) up to its first await.
withRetry(attempts, delay, exponentialBackoff, predicate, hasOnRetry) ==
  RetryLoop([NoRetry EXCEPT !.attempts = attempts, !.delay = delay,
                            !.exponentialBackoff = exponentialBackoff,
                            !.shouldRetry = predicate, !.hasOnRetry = hasOnRetry,
                            !.attempt = 1])

\* RetryCatch with a fault: the last attempt is given up one attempt early.
RetryCatch_OneShort(r, e) ==
  LET failed == [r EXCEPT !.lastError = e,
                          !.log = Append(@, RetryEv("fail", r.attempt, e, 0, NoVal))]
      ms == waitTime(r.delay, r.exponentialBackoff, r.attempt)
  IN  IF r.attempt + 1 >= r.attempts \/ ~shouldRetry(r.shouldRetry, e)
      THEN [failed EXCEPT !.pc = "rejected", !.error = e]
      ELSE [failed EXCEPT
              !.pc = "wait",
              !.log = @ \o (IF r.hasOnRetry
                            THEN << RetryEv("onRetry", r.attempt, e, 0, NoVal) >>
                            ELSE << >>)
                        \o << RetryEv("wait", r.attempt, NoErr, ms, NoVal) >>]

\* RetryCatch with a fault: the first error is kept and thrown in the end.
RetryCatch_FirstError(r, e) ==
  LET first == IF r.lastError = NoErr THEN e ELSE r.lastError
      failed == [r EXCEPT !.lastError = first,
                          !.log = Append(@, RetryEv("fail", r.attempt, e, 0, NoVal))]
      ms == waitTime(r.delay, r.exponentialBackoff, r.attempt)
  IN  IF r.attempt = r.attempts \/ ~shouldRetry(r.shouldRetry, e)
      THEN [failed EXCEPT !.pc = "rejected", !.error = first]
      ELSE [failed EXCEPT
              !.pc = "wait",
              !.log = @ \o (IF r.hasOnRetry
                            THEN << RetryEv("onRetry", r.attempt, e, 0, NoVal) >>
                            ELSE << >>)
                        \o << RetryEv("wait", r.attempt, NoErr, ms, NoVal) >>]

\* RetryCatch with a fault: onRetry is called before the error is looked at.
RetryCatch_EagerOnRetry(r, e) ==
  LET failed == [r EXCEPT !.lastError = e,
                          !.log = Append(@, RetryEv("fail", r.attempt, e, 0, NoVal))
                                    \o (IF r.hasOnRetry
                                        THEN << RetryEv("onRetry", r.attempt, e, 0, NoVal) >>
                                        ELSE << >>)]
      ms == waitTime(r.delay, r.exponentialBackoff, r.attempt)
  IN  IF r.attempt = r.attempts \/ ~shouldRetry(r.shouldRetry, e)
      THEN [failed EXCEPT !.pc = "rejected", !.error = e]
      ELSE [failed EXCEPT
              !.pc = "wait",
              !.log = @ \o << RetryEv("wait", r.attempt, NoErr, ms, NoVal) >>]

\* The catch block: the operation rejected with e.  Rethrow it on the last
\* attempt or when shouldRetry rejects it; else onRetry, then the timer.
RetryCatch(r, e) ==
  LET failed == [r EXCEPT !.lastError = e,
                          !.log = Append(@, RetryEv("fail", r.attempt, e, 0, NoVal))]
      ms == waitTime(r.delay, r.exponentialBackoff, r.attempt)
  IN  IF r.attempt = r.attempts \/ ~shouldRetry(r.shouldRetry, e)
      THEN [failed EXCEPT !.pc = "rejected", !.error = e]
      ELSE [failed EXCEPT
              !.pc = "wait",
              !.log = @ \o (IF r.hasOnRetry
                            THEN << RetryEv("onRetry", r.attempt, e, 0, NoVal) >>
                            ELSE << >>)
                        \o << RetryEv("wait", r.attempt, NoErr, ms, NoVal) >>]

\* return await fn(): the operation resolved with v.
RetryReturn(r, v) ==
  [r EXCEPT !.pc = "resolved", !.value = v,
            !.log = Append(@, RetryEv("ok", r.attempt, NoErr, 0, v))]

\* The timer fired: attempt++ and the head of the loop.
RetryAfterWait(r) == RetryLoop([r EXCEPT !.attempt = r.attempt + 1])

\* ------------------------------------------------------------- handleError

\* data?.error of a response body: its message (NoVal when it has none) and,
\* when hasErrors, the messages of its field errors.
Details(message, hasErrors, errors) ==
  [defined |-> TRUE, message |-> message, hasErrors |-> hasErrors, errors |-> errors]

\* An AxiosError: its message and code, response.status (<<>> when there
\* is no response), response.data.error and the two request id headers.
AxiosError(message, code, status, details, xRequestId, xAmznRequestId) ==
  [ kind |-> "axios", message |-> message, code |-> code, status |-> status,
    details |-> details, xRequestId |-> xRequestId, xAmznRequestId |-> xAmznRequestId ]

\* Any other thrown value; message is String(error).
OtherThrown(message) ==
  [ kind |-> "other", message |-> message, code |-> NoVal, status |-> <<>>,
    details |-> NoDetails, xRequestId |-> NoVal, xAmznRequestId |-> NoVal ]

\* What is handed to handleError: a LegitmarkError (legit) or a raw failure (raw).
Thrown(isLegitmark, legit, raw) == [isLegitmark |-> isLegitmark, legit |-> legit, raw |-> raw]

NoThrown == Thrown(FALSE, NoErr, NoCause)

\* The response statuses of a failed request.
HttpStatuses == {304, 400, 401, 403, 404, 409, 418, 422, 429, 500, 502, 503, 504, 599}

\* The response bodies of a failed request: no error object, one with a
\* message, one with a message and field errors, one with field errors only.
ResponseDetails ==
  { NoDetails,
    Details("Not allowed", FALSE, <<>>),
    Details("Validation failed", TRUE, << "category_uuid is required", "brand_uuid is invalid" >>),
    Details(NoVal, TRUE, << "category_uuid is required" >>) }

\* The AxiosErrors the HTTP client may throw: with a response, or without one
\* after a client-side timeout (ECONNABORTED) or another network failure.
AxiosErrors ==
  { AxiosError("Request failed", code, << status >>, details, x, xAmzn) :
      status \in HttpStatuses, code \in {"ERR_BAD_RESPONSE", "ECONNABORTED"},
      details \in ResponseDetails, x \in {NoVal, "req-1"}, xAmzn \in {NoVal, "amzn-2"} }
    \cup { AxiosError("no response", code, <<>>, NoDetails, NoVal, NoVal) :
             code \in {"ECONNABORTED", "ERR_NETWORK", NoVal} }

\* The raw failures handed to handleError.
RawFailures ==
  AxiosErrors \cup {OtherThrown("TypeError: x is not a function"), OtherThrown("oops")}

\* The LegitmarkErrors handed to handleError: one a classifier made of a
\* response, a workflow error, and a caller's own retryable UNKNOWN_ERROR.
RaisedLegitmarkErrors ==
  { LegitmarkError("SERVER_ERROR", "Request failed",
      [ context |-> [statusCode |-> << 500 >>, endpoint |-> "/api/v2/other",
                     requestId |-> "req-0", details |-> NoDetails],
        isRetryable |-> TRUE,
        suggestions |-> << "Retry after a short delay" >>,
        cause |-> AxiosError("Request failed", "ERR_BAD_RESPONSE", << 500 >>, NoDetails,
                             "req-0", NoVal) ]),
    LegitmarkError("WORKFLOW_ERROR", "Step 3: No SR UUID in state. Run Step 2 first.",
      [suggestions |-> << "Call runStep2() before this step" >>]),
    LegitmarkError("UNKNOWN_ERROR", "custom", [isRetryable |-> TRUE]) }

\* Everything handed to handleError.
ThrownValues ==
  { Thrown(TRUE, e, NoCause) : e \in RaisedLegitmarkErrors }
    \cup { Thrown(FALSE, NoErr, raw) : raw \in RawFailures }

\* The endpoints handleError is called with.
Endpoints == {"/api/v2/sr", "/api/v2/categories/tree"}

\* !status
NoStatus(status) == status = <<>> \/ status = << 0 >>

\* data?.error?.message ?? axiosError.message
ApiMessage(raw) ==
  IF raw.details.defined /\ raw.details.message # NoVal
  THEN raw.details.message
  ELSE raw.message

\* headers['x-request-id'] ?? headers['x-amzn-requestid'] ?? undefined
RequestId(raw) == IF raw.xRequestId # NoVal THEN raw.xRequestId ELSE raw.xAmznRequestId

\* The code, isRetryable and suggestions handleError gives an AxiosError.
Kind(code, isRetryable, suggestions) ==
  [code |-> code, isRetryable |-> isRetryable, suggestions |-> suggestions]

\* ClassifyAxios with a fault: 504 is not told from the other 5xx.
ClassifyAxios_No504(raw) ==
  LET status == IF raw.status = <<>> THEN 0 ELSE raw.status[1] IN
  IF NoStatus(raw.status) /\ raw.code = "ECONNABORTED"
  THEN Kind("TIMEOUT_ERROR", TRUE, << "Increase the timeout value", "Check network latency" >>)
  ELSE IF NoStatus(raw.status)
  THEN Kind("NETWORK_ERROR", TRUE,
            << "Check your internet connection", "Verify the API URL is correct" >>)
  ELSE IF status = 401
  THEN Kind("AUTHENTICATION_ERROR", FALSE,
            << "Check that your API key is valid", "Ensure the API key has not expired" >>)
  ELSE IF status = 403
  THEN Kind("AUTHENTICATION_ERROR", FALSE,
            << "Verify your API key has the required permissions" >>)
  ELSE IF status = 404
  THEN Kind("NOT_FOUND_ERROR", FALSE, << "Check that the resource UUID is correct" >>)
  ELSE IF status = 400 \/ status = 422
  THEN Kind("VALIDATION_ERROR", FALSE,
            IF raw.details.defined /\ raw.details.hasErrors THEN raw.details.errors ELSE <<>>)
  ELSE IF status = 429
  THEN Kind("RATE_LIMIT_ERROR", TRUE,
            << "Wait before retrying", "Consider implementing exponential backoff" >>)
  ELSE IF status >= 500
  THEN Kind("SERVER_ERROR", TRUE,
            << "The service may be temporarily unavailable", "Retry after a short delay" >>)
  ELSE Kind("UNKNOWN_ERROR", FALSE, <<>>)

\* The if / else chain of handleError over an AxiosError.
ClassifyAxios(raw) ==
  LET status == IF raw.status = <<>> THEN 0 ELSE raw.status[1] IN
  IF NoStatus(raw.status) /\ raw.code = "ECONNABORTED"
  THEN Kind("TIMEOUT_ERROR", TRUE, << "Increase the timeout value", "Check network latency" >>)
  ELSE IF NoStatus(raw.status)
  THEN Kind("NETWORK_ERROR", TRUE,
            << "Check your internet connection", "Verify the API URL is correct" >>)
  ELSE IF status = 401
  THEN Kind("AUTHENTICATION_ERROR", FALSE,
            << "Check that your API key is valid", "Ensure the API key has not expired" >>)
  ELSE IF status = 403
  THEN Kind("AUTHENTICATION_ERROR", FALSE,
            << "Verify your API key has the required permissions" >>)
  ELSE IF status = 404
  THEN Kind("NOT_FOUND_ERROR", FALSE, << "Check that the resource UUID is correct" >>)
  ELSE IF status = 400 \/ status = 422
  THEN Kind("VALIDATION_ERROR", FALSE,
            IF raw.details.defined /\ raw.details.hasErrors THEN raw.details.errors ELSE <<>>)
  ELSE IF status = 429
  THEN Kind("RATE_LIMIT_ERROR", TRUE,
            << "Wait before retrying", "Consider implementing exponential backoff" >>)
  ELSE IF status = 504
  THEN Kind("TIMEOUT_ERROR", TRUE,
            << "The upstream server timed out", "Retry after a short delay" >>)
  ELSE IF status >= 500
  THEN Kind("SERVER_ERROR", TRUE,
            << "The service may be temporarily unavailable", "Retry after a short delay" >>)
  ELSE Kind("UNKNOWN_ERROR", FALSE, <<>>)

\* The LegitmarkError handleError makes of an AxiosError.
FromAxios(raw, endpoint) ==
  LET k == ClassifyAxios(raw) IN
  LegitmarkError(k.code, ApiMessage(raw),
    [ context |-> [ statusCode |-> raw.status, endpoint |-> endpoint,
                    requestId |-> RequestId(raw), details |-> raw.details ],
      isRetryable |-> k.isRetryable,
      suggestions |-> k.suggestions,
      cause |-> raw ])

\* handleError with a fault: a LegitmarkError is classified again.
handleError_Rewrapped(thrown, endpoint) ==
  IF thrown.isLegitmark
  THEN LegitmarkError("UNKNOWN_ERROR", thrown.legit.message, [cause |-> NoCause])
  ELSE IF thrown.raw.kind = "axios"
  THEN FromAxios(thrown.raw, endpoint)
  ELSE LegitmarkError("UNKNOWN_ERROR", thrown.raw.message, [cause |-> thrown.raw])

\* handleError(error, endpoint): the error it throws.
handleError(thrown, endpoint) ==
  IF thrown.isLegitmark
  THEN thrown.legit
  ELSE IF thrown.raw.kind = "axios"
  THEN FromAxios(thrown.raw, endpoint)
  ELSE LegitmarkError("UNKNOWN_ERROR", thrown.raw.message, [cause |-> thrown.raw])

\* handleError before it is called.
NoFailure == [pc |-> "idle", thrown |-> NoThrown, endpoint |-> NoVal, error |-> NoErr]

\* -------------------------------------------------------- parseWebhookEvent

\* A JSON value that is read as a scalar: t is "undefined" (the field is
\* absent), "null", "string" or "number"; s is its text.
Scalar(t, s) == [t |-> t, s |-> s]

Undefined == Scalar("undefined", "undefined")

\* The value of the field `state`: t as for a scalar, or "array", or "object"
\* with the fields `primary` and `supplement`.
StateValue(t, primary, supplement) == [t |-> t, primary |-> primary, supplement |-> supplement]

\* The value of the field `sides`: t as for a scalar, or "object", or "array"
\* with its elements.
SidesValue(t, items) == [t |-> t, items |-> items]

\* The value of the field `invalidation_reason`: t as for a scalar, or
\* "array", or "object" with the fields `code` and `message`.
ReasonValue(t, code, message) == [t |-> t, code |-> code, message |-> message]

\* A webhook payload: t as for a scalar, or "array", or "object" with the
\* fields the parser reads, the base field it does not read (reference_id)
\* and a field it does not know (extra).
PayloadWith(t, event_type, sr_uuid, reference_id, timestamp, st, sides, reason, extra) ==
  [ t |-> t, event_type |-> event_type, sr_uuid |-> sr_uuid, reference_id |-> reference_id,
    timestamp |-> timestamp, state |-> st, sides |-> sides,
    invalidation_reason |-> reason, extra |-> extra ]

\* A payload without the field reference_id.
Payload(t, event_type, sr_uuid, timestamp, st, sides, invalidation_reason, extra) ==
  PayloadWith(t, event_type, sr_uuid, Undefined, timestamp, st, sides,
              invalidation_reason, extra)

\* A payload that is no object: it has no fields.
Fieldless(t) ==
  Payload(t, Undefined, Undefined, Undefined, StateValue("undefined", Undefined, Undefined),
          SidesValue("undefined", <<>>), ReasonValue("undefined", Undefined, Undefined),
          Undefined)

VALID_EVENT_TYPES == {"state_change", "media_rejected", "invalidate_sr"}

\* The values of event_type in a payload.
EventTypeValues ==
  { Undefined, Scalar("number", "7"), Scalar("string", "sr_created") }
    \cup { Scalar("string", e) : e \in VALID_EVENT_TYPES }

\* The values of state in a payload.
StateValues ==
  { StateValue("undefined", Undefined, Undefined), StateValue("null", Undefined, Undefined),
    StateValue("array", Undefined, Undefined),
    StateValue("object", Undefined, Undefined),
    StateValue("object", Scalar("string", "COMPLETE"), Scalar("string", "APPROVED")),
    StateValue("object", Scalar("number", "1"), Undefined) }

\* The values of sides in a payload.
SidesValues ==
  { SidesValue("undefined", <<>>), SidesValue("object", <<>>),
    SidesValue("array", <<>>), SidesValue("array", << Scalar("number", "1") >>) }

\* The values of invalidation_reason in a payload.
ReasonValues ==
  { ReasonValue("undefined", Undefined, Undefined), ReasonValue("null", Undefined, Undefined),
    ReasonValue("array", Undefined, Undefined),
    ReasonValue("object", Scalar("string", "DUPLICATE"), Scalar("string", "Duplicate SR")),
    ReasonValue("object", Scalar("string", "DUPLICATE"), Undefined),
    ReasonValue("object", Scalar("number", "3"), Scalar("string", "Duplicate SR")) }

\* The payloads handed to parseWebhookEvent.
Payloads ==
  { Fieldless(t) : t \in {"undefined", "null", "array", "string", "number"} }
    \cup
  { Payload("object", event_type, sr_uuid, timestamp, st, sides, reason, extra) :
      event_type \in EventTypeValues,
      sr_uuid \in {Undefined, Scalar("string", "sr-1"), Scalar("number", "12")},
      timestamp \in {Undefined, Scalar("string", "2025-01-01T00:00:00Z"), Scalar("null", "null")},
      st \in StateValues, sides \in SidesValues, reason \in ReasonValues,
      extra \in {Undefined, Scalar("string", "v2")} }

\* The values of reference_id in a payload.
ReferenceIdValues ==
  { Undefined, Scalar("null", "null"), Scalar("string", "item-1"), Scalar("number", "42") }

\* Payloads with the fields of their variant in order, whose base fields are
\* there or not, of the right type or not.
BasePayloads ==
  { PayloadWith("object", Scalar("string", e), sr_uuid, reference_id, timestamp,
                StateValue("object", Scalar("string", "COMPLETE"), Scalar("string", "APPROVED")),
                SidesValue("array", <<>>),
                ReasonValue("object", Scalar("string", "DUPLICATE"),
                            Scalar("string", "Duplicate SR")),
                Undefined) :
      e \in VALID_EVENT_TYPES,
      sr_uuid \in {Undefined, Scalar("string", "sr-1"), Scalar("number", "12")},
      reference_id \in ReferenceIdValues,
      timestamp \in {Undefined, Scalar("string", "2025-01-01T00:00:00Z"), Scalar("null", "null")} }

\* typeof value
TypeOf(v) == IF v.t \in {"null", "array", "object"} THEN "object" ELSE v.t

\* isObject(value)
isObject(v) == TypeOf(v) = "object" /\ v.t # "null" /\ v.t # "array"

\* JSON.stringify(value) inside a template string.
JsonStringify(v) == IF v.t = "string" THEN "\"" \o v.s \o "\"" ELSE v.s

\* What a parse comes to: it threw an Error with message, or returned value.
Threw(message) == [threw |-> TRUE, message |-> message, value |-> Fieldless("undefined")]

Returned(value) == [threw |-> FALSE, message |-> "", value |-> value]

\* No parse was made.
NoResult == [threw |-> FALSE, message |-> "", value |-> Fieldless("undefined")]

\* assertBaseFields with a fault: timestamp is not looked at.
assertBaseFields_NoTimestamp(obj) ==
  IF TypeOf(obj.sr_uuid) # "string"
  THEN "Webhook payload missing required field: sr_uuid"
  ELSE ""

\* assertBaseFields with a fault: timestamp is looked at before sr_uuid.
assertBaseFields_TimestampFirst(obj) ==
  IF TypeOf(obj.timestamp) # "string"
  THEN "Webhook payload missing required field: timestamp"
  ELSE IF TypeOf(obj.sr_uuid) # "string"
  THEN "Webhook payload missing required field: sr_uuid"
  ELSE ""

\* assertBaseFields(obj): the message of the Error it throws, "" when it passes.
assertBaseFields(obj) ==
  IF TypeOf(obj.sr_uuid) # "string"
  THEN "Webhook payload missing required field: sr_uuid"
  ELSE IF TypeOf(obj.timestamp) # "string"
  THEN "Webhook payload missing required field: timestamp"
  ELSE ""

\* assertStateChangeFields(obj)
assertStateChangeFields(obj) ==
  IF ~isObject(obj.state)
  THEN "state_change event missing required field: state"
  ELSE IF TypeOf(obj.state.primary) # "string"
  THEN "state_change event missing required field: state.primary"
  ELSE ""

\* assertMediaRejectedFields(obj)
assertMediaRejectedFields(obj) ==
  IF obj.sides.t # "array"
  THEN "media_rejected event missing required field: sides"
  ELSE ""

\* assertInvalidateSrFields(obj)
assertInvalidateSrFields(obj) ==
  IF ~isObject(obj.invalidation_reason)
  THEN "invalidate_sr event missing required field: invalidation_reason"
  ELSE IF TypeOf(obj.invalidation_reason.code) # "string"
  THEN "invalidate_sr event missing required field: invalidation_reason.code"
  ELSE IF TypeOf(obj.invalidation_reason.message) # "string"
  THEN "invalidate_sr event missing required field: invalidation_reason.message"
  ELSE ""

\* The switch of parseWebhookEvent over the event type.
AssertVariantFields(obj) ==
  CASE obj.event_type.s = "state_change" -> assertStateChangeFields(obj)
    [] obj.event_type.s = "media_rejected" -> assertMediaRejectedFields(obj)
    [] obj.event_type.s = "invalidate_sr" -> assertInvalidateSrFields(obj)
    [] OTHER -> ""

\* parseWebhookEvent with a fault: it returns a copy with the known fields only.
parseWebhookEvent_KnownFields(payload) ==
  IF ~isObject(payload)
  THEN Threw("Webhook payload must be a JSON object")
  ELSE IF TypeOf(payload.event_type) # "string" \/ payload.event_type.s \notin VALID_EVENT_TYPES
  THEN Threw("Unknown webhook event_type: " \o JsonStringify(payload.event_type)
               \o ". Expected one of: state_change, media_rejected, invalidate_sr")
  ELSE IF assertBaseFields(payload) # ""
  THEN Threw(assertBaseFields(payload))
  ELSE IF AssertVariantFields(payload) # ""
  THEN Threw(AssertVariantFields(payload))
  ELSE Returned([payload EXCEPT !.extra = Undefined])

\* parseWebhookEvent(payload)
parseWebhookEvent(payload) ==
  IF ~isObject(payload)
  THEN Threw("Webhook payload must be a JSON object")
  ELSE IF TypeOf(payload.event_type) # "string" \/ payload.event_type.s \notin VALID_EVENT_TYPES
  THEN Threw("Unknown webhook event_type: " \o JsonStringify(payload.event_type)
               \o ". Expected one of: state_change, media_rejected, invalidate_sr")
  ELSE IF assertBaseFields(payload) # ""
  THEN Threw(assertBaseFields(payload))
  ELSE IF AssertVariantFields(payload) # ""
  THEN Threw(AssertVariantFields(payload))
  ELSE Returned(payload)

\* parseWebhookEvent before it is called.  result is the parse of payload,
\* again the parse of what that parse returned.
NoWebhook ==
  [ pc |-> "idle", payload |-> Fieldless("undefined"), result |-> NoResult,
    again |-> NoResult ]

\* ------------------------------------------------- webhook state helpers

PRIMARY_COMPLETE == "COMPLETE"
PRIMARY_CANCELLED == "CANCELLED"
PRIMARY_QC == "QC"
PRIMARY_UNDERWAY == "UNDERWAY"
SUPPLEMENT_APPROVED == "APPROVED"
SUPPLEMENT_REJECTED == "REJECTED"
SUPPLEMENT_ASSIGNED == "ASSIGNED"

\* value === 'text'
StrictEquals(v, text) == v.t = "string" /\ v.s = text

isAuthentic(event) ==
  /\ StrictEquals(event.event_type, "state_change")
  /\ StrictEquals(event.state.primary, PRIMARY_COMPLETE)
  /\ StrictEquals(event.state.supplement, SUPPLEMENT_APPROVED)

\* isCounterfeit with a fault: the primary state is not looked at.
isCounterfeit_AnyPrimary(event) ==
  /\ StrictEquals(event.event_type, "state_change")
  /\ StrictEquals(event.state.supplement, SUPPLEMENT_REJECTED)

isCounterfeit(event) ==
  /\ StrictEquals(event.event_type, "state_change")
  /\ StrictEquals(event.state.primary, PRIMARY_COMPLETE)
  /\ StrictEquals(event.state.supplement, SUPPLEMENT_REJECTED)

isCancelled(event) ==
  /\ StrictEquals(event.event_type, "state_change")
  /\ StrictEquals(event.state.primary, PRIMARY_CANCELLED)

needsResubmission(event) == StrictEquals(event.event_type, "media_rejected")

isQcApproved(event) ==
  /\ StrictEquals(event.event_type, "state_change")
  /\ StrictEquals(event.state.primary, PRIMARY_QC)
  /\ StrictEquals(event.state.supplement, SUPPLEMENT_APPROVED)

\* isAuthenticationInProgress with a fault: it asks for APPROVED.
isAuthenticationInProgress_Approved(event) ==
  /\ StrictEquals(event.event_type, "state_change")
  /\ StrictEquals(event.state.primary, PRIMARY_UNDERWAY)
  /\ StrictEquals(event.state.supplement, SUPPLEMENT_APPROVED)

isAuthenticationInProgress(event) ==
  /\ StrictEquals(event.event_type, "state_change")
  /\ StrictEquals(event.state.primary, PRIMARY_UNDERWAY)
  /\ StrictEquals(event.state.supplement, SUPPLEMENT_ASSIGNED)

\* The six helpers by name.
HelperNames ==
  { "isAuthentic", "isCounterfeit", "isCancelled", "needsResubmission", "isQcApproved",
    "isAuthenticationInProgress" }

\* The call of the helper of that name on an event.
CallHelper(name, event) ==
  CASE name = "isAuthentic" -> isAuthentic(event)
    [] name = "isCounterfeit" -> isCounterfeit(event)
    [] name = "isCancelled" -> isCancelled(event)
    [] name = "needsResubmission" -> needsResubmission(event)
    [] name = "isQcApproved" -> isQcApproved(event)
    [] name = "isAuthenticationInProgress" -> isAuthenticationInProgress(event)

\* The values of state.primary in a delivered event.
Primaries == {"COMPLETE", "CANCELLED", "QC", "UNDERWAY", "PENDING"}

\* The values of state.supplement in a delivered event.
Supplements ==
  { Undefined, Scalar("null", "null") }
    \cup { Scalar("string", x) : x \in {"APPROVED", "REJECTED", "ASSIGNED", "PENDING"} }

\* The payloads of delivered events: the base fields are there, the fields of
\* the variants are there or not, whatever the event type.
DeliveredPayloads ==
  { Payload("object", Scalar("string", e), Scalar("string", "sr-1"),
            Scalar("string", "2025-01-01T00:00:00Z"), st, sides, reason, Undefined) :
      e \in VALID_EVENT_TYPES,
      st \in { StateValue("undefined", Undefined, Undefined) }
               \cup { StateValue("object", Scalar("string", p), x) :
                        p \in Primaries, x \in Supplements },
      sides \in { SidesValue("undefined", <<>>), SidesValue("array", <<>>) },
      reason \in { ReasonValue("undefined", Undefined, Undefined),
                   ReasonValue("object", Scalar("string", "DUPLICATE"),
                               Scalar("string", "Duplicate SR")) } }

\* No event parsed yet.  called holds the helpers called on the event,
\* matched those that returned true.
NoHelper == [pc |-> "idle", event |-> Fieldless("undefined"), called |-> {}, matched |-> {}]

\* ------------------------------------------------------ waitForRequirements

\* The values of options.pollInterval and options.maxWait, in clock ticks.
PollIntervals == {1, 2}

MaxWaits == {0, 2, 3}

\* The values Date.now() has when waitForRequirements is called.
StartTimes == {0, 5}

\* One entry of the history of a waitForRequirements execution, made at the
\* time `at`: "fetch" getProgress is called, "progress" it returned progress,
\* "fail" it rejected, "onPoll" options.onPoll is called with progress.
PollEv(kind, at, progress) == [kind |-> kind, at |-> at, progress |-> progress]

\* waitForRequirements before it is called: its options and locals, the
\* clock (now), the time the timer it awaits is set for (wakeAt), how it
\* ended (result, error, and the context.details of the error) and its
\* history.
NoPoll ==
  [ pc |-> "idle", pollInterval |-> 0, maxWait |-> 0, hasOnPoll |-> FALSE,
    startTime |-> 0, now |-> 0, wakeAt |-> 0, result |-> NoProgress, error |-> NoErr,
    details |-> << >>, log |-> << >> ]

\* The clock is as far from the start as it is followed.
Saturated(p) == p.now - p.startTime >= MaxElapsed

\* The head of the loop of waitForRequirements with a fault: a poll is
\* started when the elapsed time is equal to maxWait too.
PollLoop_Inclusive(p) ==
  IF p.now - p.startTime <= p.maxWait
  THEN [p EXCEPT !.pc = "fetching", !.log = Append(@, PollEv("fetch", p.now, NoProgress))]
  ELSE [p EXCEPT !.pc = "threw",
                 !.error = LegitmarkError("TIMEOUT_ERROR",
                             "Timeout waiting for requirements after "
                               \o ToString(p.maxWait) \o "ms",
                             [ isRetryable |-> TRUE,
                               suggestions |-> << "Increase maxWait option",
                                 "Check that images are being uploaded successfully" >> ]),
                 !.details = << p.maxWait, p.pollInterval >>]

\* The head of the loop of waitForRequirements, and what follows the loop:
\* while the deadline is not reached getProgress is called, then the
\* timeout error is thrown.
PollLoop(p) ==
  IF p.now - p.startTime < p.maxWait
  THEN [p EXCEPT !.pc = "fetching", !.log = Append(@, PollEv("fetch", p.now, NoProgress))]
  ELSE [p EXCEPT !.pc = "threw",
                 !.error = LegitmarkError("TIMEOUT_ERROR",
                             "Timeout waiting for requirements after "
                               \o ToString(p.maxWait) \o "ms",
                             [ isRetryable |-> TRUE,
                               suggestions |-> << "Increase maxWait option",
                                 "Check that images are being uploaded successfully" >> ]),
                 !.details = << p.maxWait, p.pollInterval >>]

\* waitForRequirements(uuid, options) up to its first await.
waitForRequirements(start, pollInterval, maxWait, hasOnPoll) ==
  PollLoop([NoPoll EXCEPT !.pollInterval = pollInterval, !.maxWait = maxWait,
                          !.hasOnPoll = hasOnPoll, !.startTime = start, !.now = start])

\* The body of the loop with a fault: it returns as soon as a required image
\* is uploaded.
PollBody_AnyUpload(p, progress) ==
  LET polled == Append(p.log, PollEv("progress", p.now, progress))
      seen == IF p.hasOnPoll THEN Append(polled, PollEv("onPoll", p.now, progress))
                             ELSE polled
  IN  IF progress.current_required > 0
      THEN [p EXCEPT !.pc = "returned", !.result = progress, !.log = seen]
      ELSE [p EXCEPT !.pc = "sleeping", !.wakeAt = p.now + p.pollInterval, !.log = seen]

\* The body of the loop after getProgress has returned progress: onPoll, the
\* return when progress.met, else the timer.
PollBody(p, progress) ==
  LET polled == Append(p.log, PollEv("progress", p.now, progress))
      seen == IF p.hasOnPoll THEN Append(polled, PollEv("onPoll", p.now, progress))
                             ELSE polled
  IN  IF progress.met
      THEN [p EXCEPT !.pc = "returned", !.result = progress, !.log = seen]
      ELSE [p EXCEPT !.pc = "sleeping", !.wakeAt = p.now + p.pollInterval, !.log = seen]

\* getProgress rejects inside the loop: nothing catches the error.
PollRejects(p, e) ==
  [p EXCEPT !.pc = "threw", !.error = e, !.log = Append(@, PollEv("fail", p.now, NoProgress))]

\* ------------------------------------------------- the state as an object

\* The runner's state as JavaScript holds it: objects and arrays live in a
\* heap and are known by reference.  objs[i] is a state object, whose errors
\* and uploadedSides fields are indices into arrs; cur is this.state; local
\* is the array `uploadedSides` of a runStep4 in progress (0: none); snaps
\* are the snapshots handed out, each with the object it refers to and what
\* it showed when it was handed out; n counts the operations.
StateObject(step, sr_uuid, completed, uploadedSides, errors) ==
  [ step |-> step, sr_uuid |-> sr_uuid, completed |-> completed,
    uploadedSides |-> uploadedSides, errors |-> errors ]

\* A new runner: createInitialState() with its two new arrays.
NoMem ==
  [ objs |-> << StateObject(0, NoVal, FALSE, 1, 2) >>,
    arrs |-> << <<>>, <<>> >>,
    cur |-> 1, local |-> 0, snaps |-> {}, n |-> 0 ]

\* What the object i shows to one who reads it now.
Shown(m, i) ==
  [ step |-> m.objs[i].step, sr_uuid |-> m.objs[i].sr_uuid,
    completed |-> m.objs[i].completed,
    uploadedSides |-> m.arrs[m.objs[i].uploadedSides],
    errors |-> m.arrs[m.objs[i].errors] ]

\* this.state = obj
Assign(m, obj) ==
  [m EXCEPT !.objs = Append(@, obj), !.cur = Len(m.objs) + 1, !.n = @ + 1]

\* return { ...this.state }: a new object with the fields of this.state,
\* handed to the caller.
getStateCopy(m) ==
  LET i == Len(m.objs) + 1
      copied == [m EXCEPT !.objs = Append(@, m.objs[m.cur]), !.n = @ + 1]
  IN  [copied EXCEPT !.snaps = @ \cup { [obj |-> i, seen |-> Shown(copied, i)] }]

\* this.state = { ...this.state, step, stepName }
updateStateObject(m, step) == Assign(m, [m.objs[m.cur] EXCEPT !.step = step])

\* this.state = { ...this.state, sr_uuid: srUuid }
setSrUuidObject(m, srUuid) == Assign(m, [m.objs[m.cur] EXCEPT !.sr_uuid = srUuid])

\* this.state = this.createInitialState()
resetObject(m) ==
  LET a == Len(m.arrs)
  IN  Assign([m EXCEPT !.arrs = @ \o << <<>>, <<>> >>], StateObject(0, NoVal, FALSE, a + 1, a + 2))

\* const uploadedSides: string[] = []
NewUploaded(m) ==
  [m EXCEPT !.arrs = Append(@, <<>>), !.local = Len(m.arrs) + 1, !.n = @ + 1]

\* uploadedSides.push(side.uuid)
PushUploaded(m, side) ==
  [m EXCEPT !.arrs[m.local] = Append(@, side), !.n = @ + 1]

\* this.state = { ...this.state, uploadedSides }
StoreUploaded(m) ==
  [Assign(m, [m.objs[m.cur] EXCEPT !.uploadedSides = m.local]) EXCEPT !.local = 0]

\* RecordError with a fault: this.state.errors.push(errorMessage).
RecordError_InPlace(m, message) ==
  [m EXCEPT !.arrs[m.objs[m.cur].errors] = Append(@, message), !.n = @ + 1]

\* this.state = { ...this.state, errors: [...this.state.errors, errorMessage] }
RecordError(m, message) ==
  LET a == Len(m.arrs) + 1
  IN  Assign([m EXCEPT !.arrs = Append(@, m.arrs[m.objs[m.cur].errors] \o << message >>)],
             [m.objs[m.cur] EXCEPT !.errors = a])

\* this.state = { ...this.state, completed: true }; return this.getState()
CompleteObject(m) ==
  [getStateCopy(Assign(m, [m.objs[m.cur] EXCEPT !.completed = TRUE])) EXCEPT !.n = m.n + 1]

\* ---------------------------------------------------------------- actions

\* The call has settled (or was never made): its promise is resolved or rejected.
Settled(c) == call[c].pc \in {"idle", "returned", "threw"}

\* A single caller awaits every operation before it makes the next.
MayStart(c) == c = 1 /\ \A d \in Calls : Settled(d)

\* `r` prefixed with the event that woke the call up.
With(ev, r) == [r EXCEPT !.events = <<ev>> \o @]

\* A pending call takes one synchronous stretch, with outcome r.
Apply(c, r) ==
  /\ state' = r.state
  /\ call' = [call EXCEPT ![c] = r.call]
  /\ trace' = [trace EXCEPT ![c] = @ \o r.events]
  /\ UNCHANGED <<retry, failure, webhook, helper, poll, mem>>

\* A new call takes its first synchronous stretch, with outcome r.
Start(c, r) ==
  /\ state' = r.state
  /\ call' = [call EXCEPT ![c] = r.call]
  /\ trace' = [trace EXCEPT ![c] = r.events]
  /\ ops' = ops + 1
  /\ UNCHANGED <<retry, failure, webhook, helper, poll, mem>>

\* A new call of any operation, while fewer than MaxOps were made.
Begin(c, r) == ops < MaxOps /\ Start(c, r)

\* The call `op` as it is made on the runner in state st.
NewCall(st, op, fromStep, hasRequest, skipTaxonomy, skipSubmit, plan) ==
  [NoCall EXCEPT !.op = op, !.fresh = (st = createInitialState), !.startUuid = st.sr_uuid,
                 !.fromStep = fromStep, !.hasRequest = hasRequest,
                 !.skipTaxonomy = skipTaxonomy, !.skipSubmit = skipSubmit, !.plan = plan]

Init ==
  /\ state = createInitialState
  /\ call = [c \in Calls |-> NoCall]
  /\ trace = [c \in Calls |-> <<>>]
  /\ ops = 0
  /\ retry = NoRetry
  /\ failure = NoFailure
  /\ webhook = NoWebhook
  /\ helper = NoHelper
  /\ poll = NoPoll
  /\ mem = NoMem

StartRun(c, skipTaxonomy, skipSubmit) ==
  /\ MayStart(c)
  /\ Begin(c, run(state, NewCall(state, "run", 1, TRUE, skipTaxonomy, skipSubmit,
                                  RunPlan(skipTaxonomy, skipSubmit))))

StartRunFrom(c, fromStep, hasRequest, skipTaxonomy, skipSubmit) ==
  /\ MayStart(c)
  /\ Begin(c, runFrom(state, NewCall(state, "runFrom", fromStep, hasRequest, skipTaxonomy,
                                      skipSubmit,
                                      RunFromPlan(fromStep, skipTaxonomy, skipSubmit))))

StartRunStep(c, k) ==
  /\ MayStart(c)
  /\ Begin(c, EnterStep(state, NewCall(state, "runStep", k, TRUE, FALSE, FALSE, <<>>), k))

\* setSrUuid(x), between two operations.
SetSrUuid(x) ==
  /\ \A d \in Calls : Settled(d)
  /\ state' = setSrUuid(state, x)
  /\ call' = [c \in Calls |-> NoCall]
  /\ trace' = [c \in Calls |-> <<>>]
  /\ UNCHANGED <<ops, retry, failure, webhook, helper, poll, mem>>

\* reset(), between two operations.
Reset ==
  /\ \A d \in Calls : Settled(d)
  /\ state' = reset(state)
  /\ call' = [c \in Calls |-> NoCall]
  /\ trace' = [c \in Calls |-> <<>>]
  /\ UNCHANGED <<ops, retry, failure, webhook, helper, poll, mem>>

\* The awaited runStepN has resolved: run / runFrom goes on.
Continue(c) ==
  /\ call[c].pc = "next"
  /\ Apply(c, Drive(state, call[c]))
  /\ UNCHANGED ops

\* The awaited runStepN has rejected: the catch block of run / runFrom.
Rethrow(c) ==
  /\ call[c].pc = "stepThrew"
  /\ Apply(c, CatchInRun(state, call[c]))
  /\ UNCHANGED ops

OnStepStartResolves(c) ==
  /\ call[c].pc = "onStepStart"
  /\ Apply(c, With(Settle("onStepStart", call[c].step, NoErr), StepBody(state, call[c])))
  /\ UNCHANGED ops

\* onStepStart is awaited outside the try block: its error leaves runStepN.
OnStepStartRejects(c, e) ==
  /\ call[c].pc = "onStepStart"
  /\ Apply(c, Outcome(state, [call[c] EXCEPT !.pc = "stepThrew", !.err = e],
                      << Settle("onStepStart", call[c].step, e) >>))
  /\ UNCHANGED ops

TransportReturns(c, res) ==
  /\ call[c].pc = "transport"
  /\ Apply(c, With(Answer(StepCall[call[c].step], call[c].step, NoErr),
                   CompleteStep(StoreResult(state, call[c].step, res), call[c], <<>>)))
  /\ UNCHANGED ops

TransportFails(c, e) ==
  /\ call[c].pc = "transport"
  /\ Apply(c, With(Answer(StepCall[call[c].step], call[c].step, e),
                   CatchInStep(state, call[c], e)))
  /\ UNCHANGED ops

OnStepCompleteResolves(c) ==
  /\ call[c].pc = "onStepComplete"
  /\ Apply(c, Outcome(state, [call[c] EXCEPT !.pc = "next"],
                      << Settle("onStepComplete", call[c].step, NoErr) >>))
  /\ UNCHANGED ops

\* onStepComplete is awaited inside the try block: its error is caught there.
OnStepCompleteRejects(c, e) ==
  /\ call[c].pc = "onStepComplete"
  /\ Apply(c, With(Settle("onStepComplete", call[c].step, e), CatchInStep(state, call[c], e)))
  /\ UNCHANGED ops

\* throw error, after onStepError.
OnStepErrorResolves(c) ==
  /\ call[c].pc = "onStepError"
  /\ Apply(c, Outcome(state, [call[c] EXCEPT !.pc = "stepThrew"],
                      << Settle("onStepError", call[c].step, NoErr) >>))
  /\ UNCHANGED ops

\* onStepError itself fails: its error leaves runStepN instead.
OnStepErrorRejects(c, e) ==
  /\ call[c].pc = "onStepError"
  /\ Apply(c, Outcome(state, [call[c] EXCEPT !.pc = "stepThrew", !.err = e],
                      << Settle("onStepError", call[c].step, e) >>))
  /\ UNCHANGED ops

OnUploadProgressResolves(c) ==
  /\ call[c].pc = "onUploadProgress"
  /\ Apply(c, Outcome(state, [call[c] EXCEPT !.pc = "getImageForSide"],
                      << Settle("onUploadProgress", call[c].step, NoErr),
                         Invoke("getImageForSide", call[c].step,
                                call[c].required[call[c].idx], NoErr, <<>>) >>))
  /\ UNCHANGED ops

OnUploadProgressRejects(c, e) ==
  /\ call[c].pc = "onUploadProgress"
  /\ Apply(c, With(Settle("onUploadProgress", call[c].step, e), CatchInStep(state, call[c], e)))
  /\ UNCHANGED ops

\* getImageForSide returns image data, or null to skip the side.
GetImageForSideReturns(c, hasData) ==
  /\ call[c].pc = "getImageForSide"
  /\ Apply(c, With(Supply(call[c].step, hasData), AfterImage(state, call[c], hasData)))
  /\ UNCHANGED ops

GetImageForSideRejects(c, e) ==
  /\ call[c].pc = "getImageForSide"
  /\ Apply(c, With(Settle("getImageForSide", call[c].step, e), CatchInStep(state, call[c], e)))
  /\ UNCHANGED ops

UploadReturns(c) ==
  /\ call[c].pc = "upload"
  /\ Apply(c, With(Answer("uploadForSide", call[c].step, NoErr), AfterUpload(state, call[c])))
  /\ UNCHANGED ops

UploadFails(c, e) ==
  /\ call[c].pc = "upload"
  /\ Apply(c, With(Answer("uploadForSide", call[c].step, e), CatchInStep(state, call[c], e)))
  /\ UNCHANGED ops

\* The inputs of runFrom that it reads: the request when fromStep <= 2 (a
\* later start is made without one), skipTaxonomy when fromStep = 1.
RequestChoices(fromStep) == IF fromStep <= 2 THEN BOOLEAN ELSE {FALSE}
TaxonomyChoices(fromStep) == IF fromStep = 1 THEN BOOLEAN ELSE {FALSE}

Next ==
  \/ \E c \in Calls, skipTaxonomy \in BOOLEAN, skipSubmit \in BOOLEAN :
       StartRun(c, skipTaxonomy, skipSubmit)
  \/ \E c \in Calls, fromStep \in 1..TOTAL_STEPS, skipSubmit \in BOOLEAN :
       \E hasRequest \in RequestChoices(fromStep), skipTaxonomy \in TaxonomyChoices(fromStep) :
         StartRunFrom(c, fromStep, hasRequest, skipTaxonomy, skipSubmit)
  \/ \E c \in Calls, k \in 1..TOTAL_STEPS : StartRunStep(c, k)
  \/ \E x \in ExternalUuids : SetSrUuid(x)
  \/ Reset
  \/ \E c \in Calls : Continue(c)
  \/ \E c \in Calls : Rethrow(c)
  \/ \E c \in Calls : OnStepStartResolves(c)
  \/ \E c \in Calls : \E res \in Results(c, call[c].step, call[c].arg) : TransportReturns(c, res)
  \/ \E c \in Calls, e \in TransportErrors : TransportFails(c, e)
  \/ \E c \in Calls : OnStepCompleteResolves(c)
  \/ \E c \in Calls : OnStepErrorResolves(c)
  \/ \E c \in Calls : OnUploadProgressResolves(c)
  \/ \E c \in Calls, hasData \in BOOLEAN : GetImageForSideReturns(c, hasData)
  \/ \E c \in Calls : UploadReturns(c)
  \/ \E c \in Calls, e \in TransportErrors : UploadFails(c, e)

\* A caller-supplied callback throws or rejects.
CallbackFails ==
  \/ \E c \in Calls, e \in CallbackErrors : OnStepStartRejects(c, e)
  \/ \E c \in Calls, e \in CallbackErrors : OnStepCompleteRejects(c, e)
  \/ \E c \in Calls, e \in CallbackErrors : OnStepErrorRejects(c, e)
  \/ \E c \in Calls, e \in CallbackErrors : OnUploadProgressRejects(c, e)
  \/ \E c \in Calls, e \in CallbackErrors : GetImageForSideRejects(c, e)

NextCb == Next \/ CallbackFails

\* A single caller; the transport may fail; the callbacks return normally.
Spec == Init /\ [][Next]_vars

\* A single caller; the transport and the callbacks may fail.
SpecCb == Init /\ [][NextCb]_vars

\* runStepN(), for one of the steps that work on an existing SR, while
\* fewer than MaxStepOps steps were called.
CallStep(c, k) ==
  /\ MayStart(c)
  /\ ops < MaxStepOps
  /\ Start(c, EnterStep(state,
                        [NewCall(state, "runStep", k, TRUE, FALSE, FALSE, <<>>)
                           EXCEPT !.startUploaded = state.uploadedSides],
                        k))

NextSteps ==
  \/ \E x \in ExternalUuids : SetSrUuid(x)
  \/ \E c \in Calls, k \in 3..5 : CallStep(c, k)
  \/ \E c \in Calls : Continue(c)
  \/ \E c \in Calls : Rethrow(c)
  \/ \E c \in Calls : OnStepStartResolves(c)
  \/ \E c \in Calls : \E res \in Results(c, call[c].step, call[c].arg) : TransportReturns(c, res)
  \/ \E c \in Calls, e \in TransportErrors : TransportFails(c, e)
  \/ \E c \in Calls : OnStepCompleteResolves(c)
  \/ \E c \in Calls : OnStepErrorResolves(c)
  \/ \E c \in Calls : OnUploadProgressResolves(c)
  \/ \E c \in Calls, hasData \in BOOLEAN : GetImageForSideReturns(c, hasData)
  \/ \E c \in Calls : UploadReturns(c)
  \/ \E c \in Calls, e \in TransportErrors : UploadFails(c, e)

\* A single caller that works on an SR created elsewhere, with the steps 3,
\* 4 and 5 called one by one, in any order, any number of times up to
\* MaxStepOps; the transport may fail, the callbacks return normally.
SpecSteps == Init /\ [][NextSteps]_vars

\* run(request, options) on a runner that may have been used before, while
\* fewer than MaxRuns runs were made.
CallRun(c, skipTaxonomy, skipSubmit) ==
  /\ MayStart(c)
  /\ ops < MaxRuns
  /\ Start(c, run(state, NewCall(state, "run", 1, TRUE, skipTaxonomy, skipSubmit,
                                  RunPlan(skipTaxonomy, skipSubmit))))

NextReuse ==
  \/ \E c \in Calls, skipTaxonomy \in BOOLEAN, skipSubmit \in BOOLEAN :
       CallRun(c, skipTaxonomy, skipSubmit)
  \/ \E c \in Calls : Continue(c)
  \/ \E c \in Calls : Rethrow(c)
  \/ \E c \in Calls : OnStepStartResolves(c)
  \/ \E c \in Calls : \E res \in Results(c, call[c].step, call[c].arg) : TransportReturns(c, res)
  \/ \E c \in Calls, e \in TransportErrors : TransportFails(c, e)
  \/ \E c \in Calls : OnStepCompleteResolves(c)
  \/ \E c \in Calls : OnStepErrorResolves(c)
  \/ \E c \in Calls : OnUploadProgressResolves(c)
  \/ \E c \in Calls, hasData \in BOOLEAN : GetImageForSideReturns(c, hasData)
  \/ \E c \in Calls : UploadReturns(c)
  \/ \E c \in Calls, e \in TransportErrors : UploadFails(c, e)

\* A single caller that makes one run() after the other on the same runner,
\* without reset() in between; the transport may fail, the callbacks return
\* normally.
SpecReuse == Init /\ [][NextReuse]_vars

\* run(request, { skipTaxonomy: true }) called while another run on the same
\* runner may be pending: nothing in run or in the steps looks at calls in
\* progress.
CallRunOverlapping(c) ==
  /\ call[c].op = "none"
  /\ Start(c, run(state, NewCall(state, "run", 1, TRUE, TRUE, FALSE, RunPlan(TRUE, FALSE))))

\* The answers of the transport while two runs overlap: an SR with
\* requirements and MaxSides required sides, a progress that is met or not.
OverlapResults(c, k, uuid) ==
  CASE k = 3 -> { f \in FetchedSrs(uuid) :
                    f.requirements # NoVal /\ Len(f.sr.required) = MaxSides }
    [] k = 5 -> { [progress |-> getProgress(p)] : p \in { q \in ServerProgress : q.defined } }
    [] OTHER -> Results(c, k, uuid)

NextOverlap ==
  \/ \E c \in Calls : CallRunOverlapping(c)
  \/ \E c \in Calls : Continue(c)
  \/ \E c \in Calls : Rethrow(c)
  \/ \E c \in Calls : OnStepStartResolves(c)
  \/ \E c \in Calls : \E res \in OverlapResults(c, call[c].step, call[c].arg) :
       TransportReturns(c, res)
  \/ \E c \in Calls : OnStepCompleteResolves(c)
  \/ \E c \in Calls : OnUploadProgressResolves(c)
  \/ \E c \in Calls : GetImageForSideReturns(c, TRUE)
  \/ \E c \in Calls : UploadReturns(c)

\* Two callers that each make one run() on the same runner, the calls
\* interleaving at their await points in any way; the transport and the
\* callbacks do not fail and getImageForSide has an image for every side.
SpecOverlap == Init /\ [][NextOverlap]_vars

\* ------------------------------------------------------ withRetry actions

\* withRetry(fn, options) is called.
WithRetry(attempts, delay, exponentialBackoff, predicate, hasOnRetry) ==
  /\ retry.pc = "idle"
  /\ retry' = withRetry(attempts, delay, exponentialBackoff, predicate, hasOnRetry)
  /\ UNCHANGED <<runnerVars, failure, webhook, helper, poll, mem>>

\* The operation resolves.
FnResolves(v) ==
  /\ retry.pc = "fn"
  /\ retry' = RetryReturn(retry, v)
  /\ UNCHANGED <<runnerVars, failure, webhook, helper, poll, mem>>

\* The operation rejects.
FnRejects(e) ==
  /\ retry.pc = "fn"
  /\ retry' = RetryCatch(retry, e)
  /\ UNCHANGED <<runnerVars, failure, webhook, helper, poll, mem>>

\* The timer of the backoff wait fires.
WaitElapses ==
  /\ retry.pc = "wait"
  /\ retry' = RetryAfterWait(retry)
  /\ UNCHANGED <<runnerVars, failure, webhook, helper, poll, mem>>

NextRetry ==
  \/ \E attempts \in 0..MaxAttempts, delay \in Delays, exponentialBackoff \in BOOLEAN,
        predicate \in Predicates, hasOnRetry \in BOOLEAN :
       WithRetry(attempts, delay, exponentialBackoff, predicate, hasOnRetry)
  \/ \E v \in FnValues : FnResolves(v)
  \/ \E e \in FnErrors : FnRejects(e)
  \/ WaitElapses

\* One execution of withRetry; the operation fails or succeeds at will.
SpecRetry == Init /\ [][NextRetry]_vars

\* ---------------------------------------------------- handleError actions

\* handleError(error, endpoint) is called and throws.
HandleError(thrown, endpoint) ==
  /\ failure.pc = "idle"
  /\ failure' = [pc |-> "threw", thrown |-> thrown, endpoint |-> endpoint,
                 error |-> handleError(thrown, endpoint)]
  /\ UNCHANGED <<runnerVars, retry, webhook, helper, poll, mem>>

NextClassify == \E thrown \in ThrownValues, endpoint \in Endpoints : HandleError(thrown, endpoint)

\* One call of handleError, on any failure.
SpecClassify == Init /\ [][NextClassify]_vars

\* ---------------------------------------------- parseWebhookEvent actions

\* parseWebhookEvent(payload) is called.
ParseWebhookEvent(payload) ==
  /\ webhook.pc = "idle"
  /\ webhook' = [webhook EXCEPT !.pc = "parsed", !.payload = payload,
                                !.result = parseWebhookEvent(payload)]
  /\ UNCHANGED <<runnerVars, retry, failure, helper, poll, mem>>

\* parseWebhookEvent is called on the event the first call returned.
ParseAgain ==
  /\ webhook.pc = "parsed"
  /\ ~webhook.result.threw
  /\ webhook' = [webhook EXCEPT !.pc = "parsedAgain",
                                !.again = parseWebhookEvent(webhook.result.value)]
  /\ UNCHANGED <<runnerVars, retry, failure, helper, poll, mem>>

NextWebhook ==
  \/ \E payload \in Payloads : ParseWebhookEvent(payload)
  \/ ParseAgain

\* One payload parsed, and the event it gave parsed again.
SpecWebhook == Init /\ [][NextWebhook]_vars

NextBase ==
  \/ \E payload \in BasePayloads : ParseWebhookEvent(payload)
  \/ ParseAgain

\* One payload parsed whose base fields vary, and the event parsed again.
SpecBase == Init /\ [][NextBase]_vars

\* ------------------------------------------------- webhook helper actions

\* A delivered payload is parsed; the helpers are called on what the parse
\* returns.
ParseEvent(payload) ==
  /\ helper.pc = "idle"
  /\ LET r == parseWebhookEvent(payload)
     IN  helper' = IF r.threw
                     THEN [helper EXCEPT !.pc = "rejected"]
                     ELSE [helper EXCEPT !.pc = "parsed", !.event = r.value]
  /\ UNCHANGED <<runnerVars, retry, failure, webhook, poll, mem>>

\* One helper is called on the parsed event.
Call(name) ==
  /\ helper.pc = "parsed"
  /\ name \notin helper.called
  /\ helper' = [helper EXCEPT !.called = @ \cup {name},
                              !.matched = IF CallHelper(name, helper.event)
                                            THEN @ \cup {name} ELSE @]
  /\ UNCHANGED <<runnerVars, retry, failure, webhook, poll, mem>>

IsAuthentic == Call("isAuthentic")

IsCounterfeit == Call("isCounterfeit")

IsCancelled == Call("isCancelled")

NeedsResubmission == Call("needsResubmission")

IsQcApproved == Call("isQcApproved")

IsAuthenticationInProgress == Call("isAuthenticationInProgress")

NextHelpers ==
  \/ \E payload \in DeliveredPayloads : ParseEvent(payload)
  \/ IsAuthentic
  \/ IsCounterfeit
  \/ IsCancelled
  \/ NeedsResubmission
  \/ IsQcApproved
  \/ IsAuthenticationInProgress

\* An event is parsed and the helpers are called on it, in any order.
SpecHelpers == Init /\ [][NextHelpers]_vars

\* --------------------------------------------- waitForRequirements actions

\* waitForRequirements(uuid, options) is called at the time start.
WaitForRequirements(start, pollInterval, maxWait, hasOnPoll) ==
  /\ poll.pc = "idle"
  /\ poll' = waitForRequirements(start, pollInterval, maxWait, hasOnPoll)
  /\ UNCHANGED <<runnerVars, retry, failure, webhook, helper, mem>>

\* The clock advances while the call awaits the fetch or the timer.
Tick ==
  /\ poll.pc \in {"fetching", "sleeping"}
  /\ ~Saturated(poll)
  /\ poll' = [poll EXCEPT !.now = @ + 1]
  /\ UNCHANGED <<runnerVars, retry, failure, webhook, helper, mem>>

\* The sides fetch of getProgress is answered with sides.progress.
ProgressReturns(serverProgress) ==
  /\ poll.pc = "fetching"
  /\ poll' = PollBody(poll, getProgress(serverProgress))
  /\ UNCHANGED <<runnerVars, retry, failure, webhook, helper, mem>>

\* The sides fetch of getProgress fails.
ProgressFails(e) ==
  /\ poll.pc = "fetching"
  /\ poll' = PollRejects(poll, e)
  /\ UNCHANGED <<runnerVars, retry, failure, webhook, helper, mem>>

\* The timer set for pollInterval fires, at its time or later, and the loop
\* goes on.
TimerFires ==
  /\ poll.pc = "sleeping"
  /\ poll.now >= poll.wakeAt \/ Saturated(poll)
  /\ poll' = PollLoop(poll)
  /\ UNCHANGED <<runnerVars, retry, failure, webhook, helper, mem>>

NextPoll ==
  \/ \E start \in StartTimes, pollInterval \in PollIntervals, maxWait \in MaxWaits,
        hasOnPoll \in BOOLEAN :
       WaitForRequirements(start, pollInterval, maxWait, hasOnPoll)
  \/ Tick
  \/ \E serverProgress \in ServerProgress : ProgressReturns(serverProgress)
  \/ \E e \in TransportErrors : ProgressFails(e)
  \/ TimerFires

\* One call of waitForRequirements.
SpecPoll == Init /\ [][NextPoll]_vars

\* One call of waitForRequirements whose clock advances, whose polls are
\* answered and whose timers fire.
SpecPollFair ==
  /\ Init /\ [][NextPoll]_vars
  /\ WF_vars(Tick)
  /\ WF_vars(\E serverProgress \in ServerProgress : ProgressReturns(serverProgress))
  /\ WF_vars(TimerFires)

\* ------------------------------------------------- state object actions

\* The operations on the state object, in any order (every order in which
\* the runner applies them is among these), while fewer than MaxWrites were
\* applied.
GetState ==
  /\ mem.n < MaxWrites
  /\ mem' = getStateCopy(mem)
  /\ UNCHANGED <<runnerVars, retry, failure, webhook, helper, poll>>

UpdateState(step) ==
  /\ mem.n < MaxWrites
  /\ mem' = updateStateObject(mem, step)
  /\ UNCHANGED <<runnerVars, retry, failure, webhook, helper, poll>>

SetSrUuidObject(x) ==
  /\ mem.n < MaxWrites
  /\ mem' = setSrUuidObject(mem, x)
  /\ UNCHANGED <<runnerVars, retry, failure, webhook, helper, poll>>

ResetObject ==
  /\ mem.n < MaxWrites
  /\ mem' = resetObject(mem)
  /\ UNCHANGED <<runnerVars, retry, failure, webhook, helper, poll>>

\* runStep4 reaches its try block.
Step4Begins ==
  /\ mem.n < MaxWrites
  /\ mem.local = 0
  /\ mem' = NewUploaded(mem)
  /\ UNCHANGED <<runnerVars, retry, failure, webhook, helper, poll>>

\* An upload of runStep4 has succeeded.
Step4Pushes(side) ==
  /\ mem.n < MaxWrites
  /\ mem.local # 0
  /\ mem' = PushUploaded(mem, side)
  /\ UNCHANGED <<runnerVars, retry, failure, webhook, helper, poll>>

\* The loop of runStep4 has ended.
Step4Stores ==
  /\ mem.n < MaxWrites
  /\ mem.local # 0
  /\ mem' = StoreUploaded(mem)
  /\ UNCHANGED <<runnerVars, retry, failure, webhook, helper, poll>>

\* The catch block of run / runFrom.
RecordsError(message) ==
  /\ mem.n < MaxWrites
  /\ mem' = RecordError(mem, message)
  /\ UNCHANGED <<runnerVars, retry, failure, webhook, helper, poll>>

\* The end of run / runFrom.
Completes ==
  /\ mem.n < MaxWrites
  /\ mem' = CompleteObject(mem)
  /\ UNCHANGED <<runnerVars, retry, failure, webhook, helper, poll>>

NextObject ==
  \/ GetState
  \/ \E step \in {4, 5} : UpdateState(step)
  \/ \E x \in ExternalUuids : SetSrUuidObject(x)
  \/ ResetObject
  \/ Step4Begins
  \/ \E side \in 1..MaxSides : Step4Pushes(side)
  \/ Step4Stores
  \/ \E e \in TransportErrors : RecordsError(ErrorMessage(e))
  \/ Completes

\* One runner's state object under the operations that write it.
SpecObject == Init /\ [][NextObject]_vars

\* ------------------------------------------------- reading a call's history

\* The call was made.
Made(c) == call[c].op # "none"

\* The call's promise has settled.
Ended(c) == call[c].pc \in {"returned", "threw"}

\* The call is a run or a runFrom.
IsRun(c) == call[c].op \in {"run", "runFrom"}

\* The entries of the call's history of one kind, in order.
Events(c, kind) == SelectSeq(trace[c], LAMBDA e : e.kind = kind)

\* The transport calls the call issued, in order.
Issued(c) == Events(c, "call")

\* The names of the transport calls the call issued, in order.
IssuedNames(c) == [i \in 1..Len(Issued(c)) |-> Issued(c)[i].name]

\* The sides of the uploads the call issued, in order.
UploadSides(c) ==
  LET ups == SelectSeq(Issued(c), LAMBDA e : e.name = "uploadForSide")
  IN  [i \in 1..Len(ups) |-> ups[i].side]

\* The steps for which the call invoked onStepStart, in order.
StepsStarted(c) ==
  LET starts == SelectSeq(trace[c], LAMBDA e : e.kind = "cb" /\ e.name = "onStepStart")
  IN  [i \in 1..Len(starts) |-> starts[i].step]

\* Entry i of the call's history is a transport call that failed.
IsFailure(c, i) == trace[c][i].kind = "ret" /\ trace[c][i].err # NoErr

\* A transport call of the call failed.
TransportFailed(c) == \E i \in DOMAIN trace[c] : IsFailure(c, i)

\* The transport call `name` of the call succeeded.
Succeeded(c, name) ==
  \E i \in DOMAIN trace[c] :
    trace[c][i].kind = "ret" /\ trace[c][i].name = name /\ trace[c][i].err = NoErr

\* The call invoked onStepError.
OnStepErrorInvoked(c) ==
  \E i \in DOMAIN trace[c] : trace[c][i].kind = "cb" /\ trace[c][i].name = "onStepError"

\* A submit of the call is in the state it was issued in.
SubmitIssued(c) ==
  /\ call[c].pc = "transport"
  /\ call[c].step = 6
  /\ trace[c] # <<>>
  /\ trace[c][Len(trace[c])].kind = "call"
  /\ trace[c][Len(trace[c])].name = "submit"

\* p is a prefix of q.
IsPrefix(p, q) == Len(p) <= Len(q) /\ \A i \in 1..Len(p) : p[i] = q[i]

\* n times the value x.
Repeat(n, x) == [i \in 1..n |-> x]

\* ----------------------------------------------------------------- claims

\* C1's case: a run with default options on a fresh runner has settled, none
\* of its transport calls failed and step 5 fetched a progress with met = true.
C1_Case(c) ==
  /\ call[c].op = "run" /\ call[c].fresh
  /\ ~call[c].skipTaxonomy /\ ~call[c].skipSubmit
  /\ Ended(c)
  /\ ~TransportFailed(c)
  /\ Succeeded(c, "getProgress") /\ state.progress.defined /\ state.progress.met

\* C1: on a fresh runner, when every transport call succeeds and the progress
\* fetched in step 5 has met = true, run(request) with default options issues
\* getTree, create, getWithRequirements, the uploads (one for each side
\* recorded in uploadedSides, in that order), getProgress and submit, in this
\* order and nothing else, and returns a state with step = 6, completed = true
\* and errors = [].
C1_RunIssuesStepsInOrder ==
  \A c \in Calls :
    C1_Case(c) =>
      LET n == Len(IssuedNames(c)) - 5 IN
      /\ call[c].pc = "returned"
      /\ n >= 0
      /\ IssuedNames(c) =
           << "getTree", "create", "getWithRequirements" >>
             \o Repeat(n, "uploadForSide") \o << "getProgress", "submit" >>
      /\ UploadSides(c) = call[c].result[1].uploadedSides
      /\ call[c].result[1].step = 6
      /\ call[c].result[1].completed
      /\ call[c].result[1].errors = <<>>

\* A default run on a fresh runner returned after uploading every side.
C1_Witness ==
  \E c \in Calls :
    /\ C1_Case(c)
    /\ call[c].pc = "returned"
    /\ Len(UploadSides(c)) = MaxSides

C4_SkipSubmitEndsAtStep5 ==
  \A c \in Calls :
    (IsRun(c) /\ call[c].skipSubmit) =>
      /\ \A i \in DOMAIN trace[c] : trace[c][i].name # "submit"
      /\ (Ended(c) /\ Succeeded(c, "getProgress")) =>
           /\ call[c].pc = "returned"
           /\ call[c].result[1].completed /\ call[c].result[1].step = 5
           /\ state.completed /\ state.step = 5

\* A run with skipSubmit returned completed on a progress with met = false.
C4_Witness ==
  \E c \in Calls :
    /\ IsRun(c) /\ call[c].skipSubmit /\ call[c].pc = "returned"
    /\ Succeeded(c, "getProgress")
    /\ state.progress.defined /\ ~state.progress.met
    /\ state.completed /\ state.step = 5

\* C5: runStep3, runStep4, runStep5 and runStep6 called while the state has
\* no sr_uuid throw a WORKFLOW_ERROR, without a callback and without a
\* transport call.
C5_StepNeedsSrUuid ==
  \A c \in Calls :
    (call[c].op = "runStep" /\ call[c].fromStep \in 3..6 /\ Falsy(call[c].startUuid)) =>
      /\ call[c].pc \in {"stepThrew", "threw"}
      /\ call[c].err.code = "WORKFLOW_ERROR"
      /\ trace[c] = <<>>

\* runStep5 was called without an sr_uuid and has thrown.
C5_Witness ==
  \E c \in Calls :
    /\ call[c].op = "runStep" /\ call[c].fromStep = 5 /\ Falsy(call[c].startUuid)
    /\ call[c].pc = "threw" /\ call[c].err.code = "WORKFLOW_ERROR"

\* The steps runFrom(s, request, options) is to execute: s..6 in increasing
\* order, without step 1 under skipTaxonomy and step 6 under skipSubmit.
C6_Expected(s, skipTaxonomy, skipSubmit) ==
  SelectSeq(<< 1, 2, 3, 4, 5, 6 >>,
            LAMBDA k : k >= s /\ ~(k = 1 /\ skipTaxonomy) /\ ~(k = 6 /\ skipSubmit))

\* runFrom's own precondition is violated by the call.
C6_Refused(c) ==
  \/ call[c].fromStep <= 2 /\ ~call[c].hasRequest
  \/ call[c].fromStep > 2 /\ Falsy(call[c].startUuid)

\* C6: runFrom(s, request, options) throws a WORKFLOW_ERROR before any step
\* and any transport call when s <= 2 and no request is given or s > 2 and the
\* state has no sr_uuid; otherwise it executes the steps s..6 in increasing
\* order, without step 1 under skipTaxonomy and step 6 under skipSubmit: all of
\* them when it returns, the first of them when a step fails.
C6_RunFromPreconditionAndOrder ==
  \A c \in Calls :
    call[c].op = "runFrom" =>
      IF C6_Refused(c)
      THEN /\ call[c].pc = "threw"
           /\ call[c].err.code = "WORKFLOW_ERROR"
           /\ call[c].step = 0
           /\ trace[c] = <<>>
      ELSE LET expected == C6_Expected(call[c].fromStep, call[c].skipTaxonomy,
                                       call[c].skipSubmit)
               started == StepsStarted(c)
               t == trace[c]
           IN  /\ IsPrefix(started, expected)
               /\ call[c].pc = "returned" => started = expected
               /\ \A i \in 1..(Len(t) - 1) : t[i].step <= t[i + 1].step

\* A runFrom(3) on an SR set with setSrUuid returned after steps 3, 4, 5, 6.
C6_Witness ==
  \E c \in Calls :
    /\ call[c].op = "runFrom" /\ call[c].fromStep = 3 /\ ~call[c].skipSubmit
    /\ call[c].pc = "returned"
    /\ StepsStarted(c) = << 3, 4, 5, 6 >>

\* C7, for a state: a runFrom(s) with s >= 3 issues no create, gives every
\* transport call the sr_uuid the state had when it was called, and leaves
\* that sr_uuid in the state.
C7_RunFromKeepsSrUuid ==
  \A c \in Calls :
    (call[c].op = "runFrom" /\ call[c].fromStep >= 3) =>
      /\ \A i \in DOMAIN trace[c] :
           trace[c][i].kind = "call" =>
             trace[c][i].name # "create" /\ trace[c][i].sr = call[c].startUuid
      /\ state.sr_uuid = call[c].startUuid

\* C7, for a step: state.sr_uuid changes only when the create of a step 2
\* succeeds, in setSrUuid and in reset.
C7_SrUuidWriters ==
  state'.sr_uuid # state.sr_uuid =>
    \/ \E c \in Calls :
         /\ call[c].pc = "transport" /\ call[c].step = 2
         /\ call'[c].pc = "onStepComplete"
         /\ state'.sr_uuid = state'.sr.uuid
    \/ /\ \A c \in Calls : Settled(c)
       /\ \/ state' = reset(state)
          \/ \E x \in ExternalUuids : state' = setSrUuid(state, x)

\* C7: after setSrUuid(x), a runFrom(s) with s >= 3 never issues create,
\* passes x as the SR UUID to every transport call it issues and leaves
\* state.sr_uuid = x; state.sr_uuid is changed only by a successful step 2, by
\* setSrUuid and by reset.
C7_SrUuidBinding == []C7_RunFromKeepsSrUuid /\ [][C7_SrUuidWriters]_vars

\* After setSrUuid("sr-x") a runFrom(3) returned, having passed "sr-x" to the
\* requirements fetch, an upload, the progress fetch and the submit.
C7_Witness ==
  \E c \in Calls :
    /\ call[c].op = "runFrom" /\ call[c].fromStep = 3 /\ call[c].pc = "returned"
    /\ call[c].startUuid \in ExternalUuids
    /\ state.sr_uuid = call[c].startUuid
    /\ \A name \in {"getWithRequirements", "uploadForSide", "getProgress", "submit"} :
         \E i \in DOMAIN trace[c] :
           /\ trace[c][i].kind = "call" /\ trace[c][i].name = name
           /\ trace[c][i].sr = call[c].startUuid

\* C8: when a transport call of a step fails inside run or runFrom (and the
\* callbacks return normally), the call rejects with the very error the
\* transport raised, and issues no further transport call.
C8_TransportFailurePropagates ==
  \A c \in Calls :
    IsRun(c) =>
      \A i \in DOMAIN trace[c] :
        IsFailure(c, i) =>
          /\ \A j \in DOMAIN trace[c] : j > i => trace[c][j].kind # "call"
          /\ call[c].pc \in {"onStepError", "stepThrew", "threw"}
          /\ call[c].err = trace[c][i].err

\* A run was rejected with the error of its second upload.
C8_Witness ==
  \E c \in Calls :
    /\ IsRun(c) /\ call[c].pc = "threw" /\ call[c].step = 4
    /\ call[c].err \in TransportErrors
    /\ Len(UploadSides(c)) = 2
    /\ IsFailure(c, Len(trace[c]) - 2)

C10_Closes(e, o) ==
  /\ e.kind = (IF o.kind = "cb" THEN "cbEnd" ELSE "ret")
  /\ e.name = o.name
  /\ e.step = o.step

\* C10: in run and runFrom nothing starts while a callback or a transport call
\* is pending; a step's transport call starts after the step's onStepStart has
\* resolved; onStepComplete and onStepError start after the step's transport
\* calls have settled; the next step's onStepStart starts right after the
\* previous step's onStepComplete has resolved.
C10_CallbacksAwaitedInOrder ==
  \A c \in Calls :
    IsRun(c) =>
      LET t == trace[c] IN
      /\ \A i \in 1..(Len(t) - 1) :
           t[i].kind \in {"cb", "call"} => C10_Closes(t[i + 1], t[i])
      /\ \A i \in DOMAIN t :
           t[i].kind = "call" =>
             \E j \in 1..(i - 1) :
               /\ t[j].kind = "cbEnd" /\ t[j].name = "onStepStart"
               /\ t[j].step = t[i].step /\ t[j].err = NoErr
      /\ \A i \in DOMAIN t :
           (t[i].kind = "cb" /\ t[i].name \in {"onStepComplete", "onStepError"}) =>
             /\ \A j \in 1..(i - 1) : t[j].kind = "call" => j + 1 < i /\ t[j + 1].kind = "ret"
             /\ \A j \in (i + 1)..Len(t) : t[j].kind = "call" => t[j].step > t[i].step
      /\ \A i \in 2..Len(t) :
           (t[i].kind = "cb" /\ t[i].name = "onStepStart") =>
             /\ t[i - 1].kind = "cbEnd" /\ t[i - 1].name = "onStepComplete"
             /\ t[i - 1].err = NoErr /\ t[i - 1].step < t[i].step

\* A run went through its six steps and an upload, every callback and every
\* transport call settling in a stretch of its own.
C10_Witness ==
  \E c \in Calls :
    /\ call[c].op = "run" /\ call[c].pc = "returned"
    /\ StepsStarted(c) = << 1, 2, 3, 4, 5, 6 >>
    /\ Len(UploadSides(c)) >= 1

\* --------------------------------------------- reading withRetry's history

\* The entries of one kind in the history of the withRetry execution, in order.
RetryLog(kind) == SelectSeq(retry.log, LAMBDA e : e.kind = kind)

\* How many entries of one kind the history holds.
RetryCount(kind) == Len(RetryLog(kind))

\* The retry predicate of the execution accepts the error: the default one
\* accepts a LegitmarkError with isRetryable = true and nothing else.
RetryAccepts(e) ==
  \/ retry.shouldRetry = "always"
  \/ retry.shouldRetry = "default" /\ e.code \in LegitmarkErrorCodes /\ e.isRetryable

\* Every failure of the operation so far was accepted by the predicate.
RetryAllAccepted == \A i \in DOMAIN retry.log :
                      retry.log[i].kind = "fail" => RetryAccepts(retry.log[i].err)

\* How many of the first i entries of the history are failures.
RetryFailuresUpTo(i) == Cardinality({j \in 1..i : retry.log[j].kind = "fail"})

\* C11: with attempts = A >= 1, while the operation has failed fewer than A
\* times and only with accepted errors withRetry does not give up, and when
\* the operation then succeeds on its N-th invocation (N <= A) it was invoked
\* exactly N times and withRetry resolves with the result of that invocation.
C11_RetriesUntilSuccess ==
  (retry.pc # "idle" /\ retry.attempts >= 1) =>
    LET n == RetryCount("fail") + 1
        last == retry.log[Len(retry.log)]
    IN  /\ (RetryAllAccepted /\ RetryCount("fail") < retry.attempts) => retry.pc # "rejected"
        /\ retry.pc = "resolved" =>
             /\ RetryAllAccepted
             /\ n <= retry.attempts
             /\ RetryCount("fn") = n
             /\ last.kind = "ok" /\ last.attempt = n
             /\ retry.value = last.value

\* The operation failed twice and succeeded on its third invocation.
C11_Witness ==
  /\ retry.pc = "resolved" /\ retry.attempts = 3
  /\ RetryCount("fail") = 2 /\ RetryCount("fn") = 3
  /\ retry.value = "result-b"

\* C12: when an invocation fails with an error the predicate rejects (the
\* default predicate rejects everything but a LegitmarkError with isRetryable
\* = true), nothing follows it, no invocation, no onRetry, no wait: withRetry
\* rejects with that error; on the first attempt that is one invocation.
C12_RejectedErrorStops ==
  \A i \in DOMAIN retry.log :
    (retry.log[i].kind = "fail" /\ ~RetryAccepts(retry.log[i].err)) =>
      /\ i = Len(retry.log)
      /\ retry.pc = "rejected"
      /\ retry.error = retry.log[i].err
      /\ retry.log[i].attempt = 1 => RetryCount("fn") = 1

\* Under the default predicate a plain error that says isRetryable = true
\* failed the first attempt, and withRetry rejected with it.
C12_Witness ==
  /\ retry.pc = "rejected" /\ retry.shouldRetry = "default" /\ retry.attempts >= 2
  /\ RetryCount("fn") = 1
  /\ retry.error.code = "Error" /\ retry.error.isRetryable

\* C13: when every invocation has failed with an accepted error and withRetry
\* with attempts = A >= 1 has rejected, the operation was invoked exactly A
\* times and the error is the one of the A-th invocation.
C13_ExhaustionThrowsLastError ==
  (retry.pc = "rejected" /\ retry.attempts >= 1 /\ RetryAllAccepted) =>
    /\ RetryCount("fn") = retry.attempts
    /\ RetryCount("fail") = retry.attempts
    /\ RetryLog("fail")[retry.attempts].attempt = retry.attempts
    /\ retry.error = RetryLog("fail")[retry.attempts].err

\* Three attempts failed, the first with another error than the last.
C13_Witness ==
  /\ retry.pc = "rejected" /\ retry.attempts = 3 /\ RetryAllAccepted
  /\ RetryCount("fail") = 3
  /\ RetryLog("fail")[1].err # RetryLog("fail")[3].err
  /\ retry.error = RetryLog("fail")[3].err

\* C14: the wait that follows the k-th failed attempt is delay * 2^(k-1) with
\* exponentialBackoff and delay without it, and the (k+1)-th invocation comes
\* after it.
C14_BackoffWaits ==
  \A i \in DOMAIN retry.log :
    retry.log[i].kind = "wait" =>
      LET k == RetryFailuresUpTo(i) IN
      /\ retry.log[i].ms = IF retry.exponentialBackoff
                             THEN retry.delay * 2 ^ (k - 1)
                             ELSE retry.delay
      /\ i < Len(retry.log) =>
           retry.log[i + 1].kind = "fn" /\ retry.log[i + 1].attempt = k + 1

\* With delay = 1000 and exponentialBackoff the waits were 1000, 2000, 4000.
C14_Witness ==
  /\ retry.delay = 1000 /\ retry.exponentialBackoff
  /\ RetryCount("wait") = 3
  /\ RetryLog("wait")[1].ms = 1000
  /\ RetryLog("wait")[2].ms = 2000
  /\ RetryLog("wait")[3].ms = 4000

C16_Kind(raw) ==
  LET status == IF raw.status = <<>> THEN 0 ELSE raw.status[1] IN
  CASE raw.status = <<>> /\ raw.code = "ECONNABORTED" -> "TIMEOUT_ERROR"
    [] raw.status = <<>> /\ raw.code # "ECONNABORTED" -> "NETWORK_ERROR"
    [] status \in {401, 403} -> "AUTHENTICATION_ERROR"
    [] status = 404 -> "NOT_FOUND_ERROR"
    [] status \in {400, 422} -> "VALIDATION_ERROR"
    [] status = 429 -> "RATE_LIMIT_ERROR"
    [] status = 504 -> "TIMEOUT_ERROR"
    [] status >= 500 /\ status # 504 -> "SERVER_ERROR"
    [] OTHER -> "UNKNOWN_ERROR"

\* C16: handleError gives every failure of the HTTP client the kind of the
\* table (timeout without response, no response, 401 / 403, 404, 400 / 422,
\* 429, 504, other 5xx, anything else), and every error it makes is retryable
\* exactly when its kind is TIMEOUT_ERROR, NETWORK_ERROR, RATE_LIMIT_ERROR or
\* SERVER_ERROR.
C16_ClassificationTable ==
  (failure.pc = "threw" /\ ~failure.thrown.isLegitmark) =>
    /\ failure.error.code \in LegitmarkErrorCodes
    /\ failure.thrown.raw.kind = "axios" => failure.error.code = C16_Kind(failure.thrown.raw)
    /\ failure.error.isRetryable <=>
         failure.error.code \in {"TIMEOUT_ERROR", "NETWORK_ERROR", "RATE_LIMIT_ERROR",
                                 "SERVER_ERROR"}

\* A 504 response was classified as a retryable TIMEOUT_ERROR.
C16_Witness ==
  /\ failure.pc = "threw" /\ failure.thrown.raw.kind = "axios"
  /\ failure.thrown.raw.status = << 504 >>
  /\ failure.error.code = "TIMEOUT_ERROR" /\ failure.error.isRetryable

\* C17: a LegitmarkError handed to handleError is thrown as it is: code,
\* message, isRetryable, suggestions, context and cause are those it had.
C17_LegitmarkErrorPassesThrough ==
  (failure.pc = "threw" /\ failure.thrown.isLegitmark) =>
    /\ failure.error = failure.thrown.legit
    /\ failure.error.code = failure.thrown.legit.code
    /\ failure.error.message = failure.thrown.legit.message
    /\ failure.error.isRetryable = failure.thrown.legit.isRetryable
    /\ failure.error.suggestions = failure.thrown.legit.suggestions
    /\ failure.error.context = failure.thrown.legit.context
    /\ failure.error.cause = failure.thrown.legit.cause

\* A SERVER_ERROR made for another endpoint went through handleError with its
\* own context and cause.
C17_Witness ==
  /\ failure.pc = "threw" /\ failure.thrown.isLegitmark
  /\ failure.error.code = "SERVER_ERROR"
  /\ failure.error.context.endpoint # failure.endpoint
  /\ failure.error.cause # NoCause

\* C18 as stated: every error handleError makes, of a failure of the HTTP
\* client with or without a response or of any other thrown value, has the
\* endpoint in context.endpoint and the raw failure as cause, and has
\* context.statusCode exactly when there was a response status.
C18_EveryErrorCarriesEndpointAndCause ==
  (failure.pc = "threw" /\ ~failure.thrown.isLegitmark) =>
    /\ failure.error.context.endpoint = failure.endpoint
    /\ failure.error.cause = failure.thrown.raw
    /\ failure.error.context.statusCode # <<>> <=> failure.thrown.raw.status # <<>>

\* ------------------------------------------- claims on parseWebhookEvent

\* The payloads C19 says are parsed.
C19_Valid(p) ==
  /\ p.t = "object"
  /\ p.event_type.t = "string" /\ p.event_type.s \in {"state_change", "media_rejected",
                                                      "invalidate_sr"}
  /\ p.sr_uuid.t = "string" /\ p.timestamp.t = "string"
  /\ p.event_type.s = "state_change" => p.state.t = "object" /\ p.state.primary.t = "string"
  /\ p.event_type.s = "media_rejected" => p.sides.t = "array"
  /\ p.event_type.s = "invalidate_sr" =>
       /\ p.invalidation_reason.t = "object"
       /\ p.invalidation_reason.code.t = "string"
       /\ p.invalidation_reason.message.t = "string"

\* C19: parseWebhookEvent(p) returns exactly when p is a non-null, non-array
\* object with one of the three event types, a string sr_uuid, a string
\* timestamp and the fields of its variant (state an object with a string
\* primary; sides an array, whatever its elements; invalidation_reason an
\* object with string code and message); otherwise it throws and returns
\* nothing.
C19_ParseAcceptsExactlyValidPayloads ==
  webhook.pc # "idle" =>
    /\ ~webhook.result.threw <=> C19_Valid(webhook.payload)
    /\ webhook.result.threw =>
         webhook.result.message # "" /\ webhook.result.value = Fieldless("undefined")

\* A media_rejected payload whose sides holds a number was parsed.
C19_Witness ==
  /\ webhook.pc = "parsed" /\ ~webhook.result.threw
  /\ webhook.payload.event_type.s = "media_rejected"
  /\ webhook.payload.sides = SidesValue("array", << Scalar("number", "1") >>)
  /\ webhook.payload.state.t = "null"

\* C20: a successful parseWebhookEvent returns its input with every field,
\* the unknown ones too, so a second parse of the payload and a parse of the
\* returned event give the same result.
C20_ParseReturnsItsInput ==
  (webhook.pc # "idle" /\ ~webhook.result.threw) =>
    /\ webhook.result.value = webhook.payload
    /\ webhook.result.value.extra = webhook.payload.extra
    /\ parseWebhookEvent(webhook.payload) = webhook.result
    /\ webhook.pc = "parsedAgain" =>
         ~webhook.again.threw /\ webhook.again = webhook.result

\* A payload with an unknown field was parsed, and the event parsed again: the
\* field is in both results.
C20_Witness ==
  /\ webhook.pc = "parsedAgain"
  /\ webhook.payload.extra = Scalar("string", "v2")
  /\ webhook.result.value.extra = Scalar("string", "v2")
  /\ webhook.again.value.extra = Scalar("string", "v2")

\* The text sub occurs in the text s.
Contains(s, sub) ==
  \E i \in 1..(Len(s) - Len(sub) + 1) : SubSeq(s, i, i + Len(sub) - 1) = sub

\* The text s ends with the text suf.
EndsWith(s, suf) ==
  Len(s) >= Len(suf) /\ SubSeq(s, Len(s) - Len(suf) + 1, Len(s)) = suf

\* The fields C21 speaks of, in its check order.
C21_Fields ==
  << "event_type", "sr_uuid", "timestamp", "state", "state.primary", "sides",
     "invalidation_reason", "invalidation_reason.code", "invalidation_reason.message" >>

\* The field of payload p that fails: absent, or not of the kind required.
\* The fields of a variant count for the payloads of that variant only.
C21_Fails(p, field) ==
  LET known == p.event_type.t = "string" /\ p.event_type.s \in {"state_change",
                 "media_rejected", "invalidate_sr"}
      variant == IF known THEN p.event_type.s ELSE "none"
      object(v) == v.t = "object"
  IN CASE field = "event_type" -> ~known
       [] field = "sr_uuid" -> p.sr_uuid.t # "string"
       [] field = "timestamp" -> p.timestamp.t # "string"
       [] field = "state" -> variant = "state_change" /\ ~object(p.state)
       [] field = "state.primary" ->
            variant = "state_change" /\ object(p.state) /\ p.state.primary.t # "string"
       [] field = "sides" -> variant = "media_rejected" /\ p.sides.t # "array"
       [] field = "invalidation_reason" ->
            variant = "invalidate_sr" /\ ~object(p.invalidation_reason)
       [] field = "invalidation_reason.code" ->
            /\ variant = "invalidate_sr" /\ object(p.invalidation_reason)
            /\ p.invalidation_reason.code.t # "string"
       [] field = "invalidation_reason.message" ->
            /\ variant = "invalidate_sr" /\ object(p.invalidation_reason)
            /\ p.invalidation_reason.message.t # "string"

\* The first failing field of p in the check order; "" when none fails.
C21_FirstFailing(p) ==
  LET failing == {i \in DOMAIN C21_Fields : C21_Fails(p, C21_Fields[i])}
  IN  IF failing = {} THEN ""
      ELSE C21_Fields[CHOOSE i \in failing : \A j \in failing : i <= j]

\* The message names the field: it ends with "field: <name>"; for event_type
\* it says event_type and lists the three recognised types.
C21_Names(message, field) ==
  IF field = "event_type"
  THEN /\ Contains(message, "event_type")
       /\ Contains(message, "state_change, media_rejected, invalidate_sr")
  ELSE EndsWith(message, "field: " \o field)

\* C21 as stated: every rejection by parseWebhookEvent names the first
\* failing field of the check order event_type, sr_uuid, timestamp, variant
\* fields.
C21_EveryRejectionNamesFirstFailingField ==
  (webhook.pc # "idle" /\ webhook.result.threw) =>
    C21_Names(webhook.result.message, C21_FirstFailing(webhook.payload))

\* C21: every rejection of a payload that is a non-null, non-array object
\* names the first failing field of the check order event_type, sr_uuid,
\* timestamp, variant fields, and for event_type lists the three recognised
\* types; a payload that is no such object is rejected with "Webhook payload
\* must be a JSON object", which names none of the fields.
C21_ObjectRejectionNamesFirstFailingField ==
  (webhook.pc # "idle" /\ webhook.result.threw) =>
    IF webhook.payload.t = "object"
    THEN C21_Names(webhook.result.message, C21_FirstFailing(webhook.payload))
    ELSE /\ webhook.result.message = "Webhook payload must be a JSON object"
         /\ \A i \in DOMAIN C21_Fields : ~Contains(webhook.result.message, C21_Fields[i])

\* A state_change payload without timestamp and without state was rejected:
\* the message names timestamp, the earlier of the two in the check order.
C21_Witness ==
  /\ webhook.pc = "parsed" /\ webhook.result.threw
  /\ webhook.payload.event_type = Scalar("string", "state_change")
  /\ webhook.payload.sr_uuid.t = "string"
  /\ webhook.payload.timestamp.t = "undefined"
  /\ webhook.payload.state.t = "undefined"
  /\ EndsWith(webhook.result.message, "field: timestamp")

\* --------------------------------------------- claims on the state helpers

\* What C22 says the helper of that name returns on an event.
C22_Table(name, event) ==
  LET type == event.event_type.s
      primary == event.state.primary
      supplement == event.state.supplement
      is(v, text) == v = Scalar("string", text)
  IN CASE name = "isAuthentic" ->
            type = "state_change" /\ is(primary, "COMPLETE") /\ is(supplement, "APPROVED")
       [] name = "isCounterfeit" ->
            type = "state_change" /\ is(primary, "COMPLETE") /\ is(supplement, "REJECTED")
       [] name = "isCancelled" -> type = "state_change" /\ is(primary, "CANCELLED")
       [] name = "needsResubmission" -> type = "media_rejected"
       [] name = "isQcApproved" ->
            type = "state_change" /\ is(primary, "QC") /\ is(supplement, "APPROVED")
       [] name = "isAuthenticationInProgress" ->
            type = "state_change" /\ is(primary, "UNDERWAY") /\ is(supplement, "ASSIGNED")

\* C22: on every parsed event each helper returns true exactly in its case:
\* isAuthentic for state_change COMPLETE + APPROVED, isCounterfeit for
\* state_change COMPLETE + REJECTED, isCancelled for state_change CANCELLED
\* with any supplement, needsResubmission for media_rejected whatever else
\* the payload holds, isQcApproved for state_change QC + APPROVED,
\* isAuthenticationInProgress for state_change UNDERWAY + ASSIGNED.
C22_HelpersMatchTheirCase ==
  helper.pc = "parsed" =>
    \A name \in helper.called :
      (name \in helper.matched) <=> C22_Table(name, helper.event)

\* All six helpers were called on a media_rejected event that also carries a
\* state COMPLETE + APPROVED: needsResubmission alone matched.
C22_Witness ==
  /\ helper.pc = "parsed" /\ helper.called = HelperNames
  /\ helper.event.event_type.s = "media_rejected"
  /\ helper.event.state =
       StateValue("object", Scalar("string", "COMPLETE"), Scalar("string", "APPROVED"))
  /\ helper.matched = {"needsResubmission"}

\* C23: on every event parseWebhookEvent accepts, whatever state.primary and
\* state.supplement are, at most one of the six helpers returns true, so at
\* most one of isAuthentic, isCounterfeit, isCancelled; on an invalidate_sr
\* event none does.
C23_AtMostOneHelperMatches ==
  helper.pc = "parsed" =>
    /\ Cardinality(helper.matched) <= 1
    /\ Cardinality(helper.matched \cap {"isAuthentic", "isCounterfeit", "isCancelled"}) <= 1
    /\ helper.event.event_type.s = "invalidate_sr" => helper.matched = {}

\* All six helpers were called on a state_change CANCELLED + REJECTED event:
\* isCancelled alone matched.
C23_Witness ==
  /\ helper.pc = "parsed" /\ helper.called = HelperNames
  /\ helper.event.event_type.s = "state_change"
  /\ helper.event.state =
       StateValue("object", Scalar("string", "CANCELLED"), Scalar("string", "REJECTED"))
  /\ helper.matched = {"isCancelled"}

\* ----------------------------------------------- further claims on the runner

\* The call was refused by a check of the runner: it threw, and no transport
\* call of it had failed.
RaisedByRunner(c) == Made(c) /\ call[c].pc = "threw" /\ ~TransportFailed(c)

\* C24: every error the runner raises itself for a violated precondition
\* (runFrom without a request, no SR UUID, no requirements, progress not met)
\* has the code WORKFLOW_ERROR, isRetryable = false and at least one
\* suggestion, so the default predicate of withRetry does not accept it.
C24_PreconditionErrorsAreWorkflowErrors ==
  \A c \in Calls :
    RaisedByRunner(c) =>
      /\ call[c].err.code = "WORKFLOW_ERROR"
      /\ call[c].err.isRetryable = FALSE
      /\ Len(call[c].err.suggestions) >= 1
      /\ ~shouldRetry("default", call[c].err)

\* A step was refused because the requirements were not in the state.
C24_Witness ==
  \E c \in Calls :
    /\ RaisedByRunner(c)
    /\ call[c].err.suggestions = << "Call runStep3() before this step" >>

\* ------------------------------------------- claims on waitForRequirements

\* The entries of one kind in the history of waitForRequirements, in order.
PollLog(kind) == SelectSeq(poll.log, LAMBDA e : e.kind = kind)

\* C25: waitForRequirements resolves only with a progress whose met is true,
\* the one of the first poll that reports met (no poll before it did, none
\* follows it); with an onPoll callback every progress fetched is handed to
\* onPoll once, at once, so fetches and onPoll calls are equally many; and a
\* poll that fails ends the call with its error, no poll following.
C25_ResolvesWithFirstMetProgress ==
  LET fetched == PollLog("progress")
      seen == PollLog("onPoll")
      last == poll.log[Len(poll.log)]
  IN  /\ poll.pc = "returned" =>
           /\ poll.result.met
           /\ Len(fetched) >= 1
           /\ poll.result = fetched[Len(fetched)].progress
           /\ \A i \in 1..(Len(fetched) - 1) : ~fetched[i].progress.met
           /\ last.kind \in {"progress", "onPoll"}
      /\ \A i \in DOMAIN fetched : fetched[i].progress.met => i = Len(fetched)
      /\ poll.hasOnPoll =>
           /\ Len(seen) = Len(fetched)
           /\ Len(seen) = IF poll.pc = "fetching"
                            THEN Len(PollLog("fetch")) - 1
                            ELSE Len(PollLog("fetch")) - Len(PollLog("fail"))
           /\ \A i \in DOMAIN seen : seen[i].progress = fetched[i].progress
           /\ \A i \in DOMAIN poll.log :
                poll.log[i].kind = "progress" =>
                  i < Len(poll.log) /\ poll.log[i + 1].kind = "onPoll"
      /\ ~poll.hasOnPoll => Len(seen) = 0
      /\ \A i \in DOMAIN poll.log :
           poll.log[i].kind = "fail" =>
             /\ i = Len(poll.log)
             /\ poll.pc = "threw"
             /\ poll.error \in TransportErrors

\* The third poll was the first to report met: the call returned its
\* progress and onPoll was called three times.
C25_Witness ==
  /\ poll.pc = "returned" /\ poll.hasOnPoll
  /\ Len(PollLog("fetch")) = 3 /\ Len(PollLog("onPoll")) = 3
  /\ poll.result.met
  /\ PollLog("onPoll")[1].progress # PollLog("onPoll")[2].progress

\* No poll was started when the time elapsed had reached maxWait, and a call
\* that ended without a met progress and without a failed poll threw a
\* retryable TIMEOUT_ERROR when the time had run out.
C26_Deadline ==
  /\ \A i \in DOMAIN poll.log :
       poll.log[i].kind = "fetch" => poll.log[i].at - poll.startTime < poll.maxWait
  /\ (poll.pc = "threw" /\ Len(PollLog("fail")) = 0) =>
       /\ poll.error.code = "TIMEOUT_ERROR"
       /\ poll.error.isRetryable
       /\ poll.error.code \in LegitmarkErrorCodes
       /\ poll.now - poll.startTime >= poll.maxWait
       /\ \A i \in DOMAIN poll.log : ~poll.log[i].progress.met
  /\ (poll.pc \in {"fetching", "sleeping"} /\ poll.now - poll.startTime >= poll.maxWait) =>
       Len(PollLog("fetch")) <= Len(PollLog("progress")) + 1

\* C26: waitForRequirements starts no poll once the time elapsed has reached
\* maxWait, and when no poll has reported met it then rejects with a
\* retryable LegitmarkError TIMEOUT_ERROR; when the clock advances and every
\* poll is answered, a call that was made ends, by a return or by a throw.
C26_TimeoutAndTermination ==
  /\ []C26_Deadline
  /\ (poll.pc # "idle") ~> (poll.pc \in {"returned", "threw"})

\* Two polls were answered without met, the time ran out and the call
\* threw the timeout error.
C26_Witness ==
  /\ poll.pc = "threw" /\ poll.error.code = "TIMEOUT_ERROR"
  /\ poll.maxWait = 3
  /\ Len(PollLog("progress")) >= 2 /\ Len(PollLog("fail")) = 0

\* ------------------------------------------------------- claims on step 4

\* The entries of a call's history that step 4 made.
Step4(c) == SelectSeq(trace[c], LAMBDA e : e.step = 4)

\* state.sr.sides.required, the empty list when the snapshot has none.
CachedRequired ==
  IF state.sr.defined /\ state.sr.hasRequired THEN state.sr.required ELSE <<>>

\* The members of a sequence.
Members(seq) == {seq[i] : i \in DOMAIN seq}

\* The entry is the invocation of the callback name / its return / the
\* uploadForSide call / its answer.
IsCb(e, name) == e.kind = "cb" /\ e.name = name
IsCbEnd(e, name) == e.kind = "cbEnd" /\ e.name = name
IsUpload(e) == e.kind = "call" /\ e.name = "uploadForSide"
IsUploadEnd(e) == e.kind = "ret" /\ e.name = "uploadForSide"

\* How many sides step 4 had begun when it made the i-th entry of t.
SidesBegun(t, i) == Cardinality({j \in 1..i : IsCb(t[j], "onUploadProgress")})

\* C27: step 4 takes the sides of state.sr.sides.required one at a time in
\* the server's order: onUploadProgress for the side, when it has returned
\* getImageForSide for the side, when that has returned image data the
\* upload of the side, and the next side only when the side is skipped or
\* its upload has succeeded; so no two uploads are in flight, and no side
\* that is only in sides.optional or in requirements.side_groups is
\* uploaded.
C27_SidesOneAtATimeInServerOrder ==
  \A c \in Calls :
    LET t == Step4(c)
        req == CachedRequired
        side(i) == req[SidesBegun(t, i)]
    IN  /\ \A i \in DOMAIN t :
             /\ IsCb(t[i], "onUploadProgress") =>
                  /\ SidesBegun(t, i) <= Len(req)
                  /\ t[i].side = side(i)
                  /\ i > 1
                  /\ \/ IsCbEnd(t[i - 1], "onStepStart")
                     \/ t[i - 1] = Supply(4, FALSE)
                     \/ IsUploadEnd(t[i - 1]) /\ t[i - 1].err = NoErr
             /\ IsCb(t[i], "getImageForSide") =>
                  /\ i > 1 /\ IsCbEnd(t[i - 1], "onUploadProgress")
                  /\ t[i].side = side(i)
             /\ IsUpload(t[i]) =>
                  /\ i > 1 /\ t[i - 1] = Supply(4, TRUE)
                  /\ t[i].side = side(i)
                  /\ t[i].side \in Members(req)
                  /\ t[i].side \notin Members(state.sr.optional)
                                        \cup Members(GroupSides(state.requirements))
                  /\ i < Len(t) => IsUploadEnd(t[i + 1])
             /\ IsUploadEnd(t[i]) => i > 1 /\ IsUpload(t[i - 1])
             /\ IsCb(t[i], "onStepComplete") => SidesBegun(t, i) = Len(req)
        /\ Len(SelectSeq(t, IsUpload)) - Len(SelectSeq(t, IsUploadEnd)) \in {0, 1}

\* Step 4 has uploaded the two required sides in the server's order; the SR
\* has an optional side, and the requirements a side of their own.
C27_Witness ==
  \E c \in Calls :
    /\ call[c].pc = "returned" /\ call[c].step = 4
    /\ Len(CachedRequired) = 2
    /\ Len(SelectSeq(Step4(c), IsUpload)) = 2
    /\ [i \in 1..2 |-> SelectSeq(Step4(c), IsUpload)[i].side] = CachedRequired
    /\ state.sr.optional # <<>> /\ GroupSides(state.requirements) # <<>>

\* Step 4 of the call has come to its end without an error.
Step4Completed(c) ==
  call[c].step = 4 /\ call[c].pc \in {"onStepComplete", "next", "returned"}

\* The sides for which getImageForSide returned image data, in the order of
\* the calls.
SidesWithData(t) ==
  LET at == SelectSeq([i \in DOMAIN t |-> i], LAMBDA i : t[i] = Supply(4, TRUE))
  IN  [n \in DOMAIN at |-> t[at[n] - 1].side]

\* C28: when step 4 completes, state.uploadedSides is the list, in the
\* server's order, of the required sides for which getImageForSide returned
\* image data, whatever the list was before, and onStepComplete is told
\* uploaded = its length and total = the number of required sides.
C28_UploadedSidesAreThoseWithData ==
  \A c \in Calls :
    Step4Completed(c) =>
      LET t == Step4(c)
          data == SidesWithData(t)
          done == SelectSeq(t, LAMBDA e : IsCb(e, "onStepComplete"))
      IN  /\ state.uploadedSides = data
          /\ state.uploadedSides = SelectSeq(CachedRequired, LAMBDA x : x \in Members(data))
          /\ Len(done) = 1
          /\ done[1].info = << Len(state.uploadedSides), Len(CachedRequired) >>

\* Step 4 was run when uploadedSides held two sides: the callback gave data
\* for the second side only, and uploadedSides is that side alone.
C28_Witness ==
  \E c \in Calls :
    /\ Step4Completed(c) /\ call[c].pc = "returned"
    /\ Len(call[c].startUploaded) = 2
    /\ Len(CachedRequired) = 2
    /\ state.uploadedSides = << CachedRequired[2] >>

\* The sides whose upload succeeded, in the order of the uploads.
SidesUploaded(t) ==
  LET at == SelectSeq([i \in DOMAIN t |-> i],
                      LAMBDA i : IsUploadEnd(t[i]) /\ t[i].err = NoErr)
  IN  [n \in DOMAIN at |-> t[at[n] - 1].side]

\* C29 as stated: after every step 4, completed or failed, state.uploadedSides
\* lists the sides that were uploaded in that step, so the uploads that
\* succeeded before a later upload failed are recorded.
C29_UploadedSidesRecordedOnFailure ==
  \A c \in Calls :
    (call[c].step = 4 /\ call[c].pc \in {"returned", "threw"} /\ Step4(c) # <<>>) =>
      state.uploadedSides = SidesUploaded(Step4(c))

\* C30 as stated: when the server's snapshots have met = (current_required =
\* total_required), so has every ProgressData getProgress returns, and with
\* it every snapshot step 5 stores in state.progress, also when the SR
\* response has no progress data.
C30_StoredProgressHasMetIffAllRequired ==
  /\ \A p \in ServerProgress : p.defined => (p.met <=> p.current_required = p.total_required)
  /\ state.progress.defined =>
       (state.progress.met <=> state.progress.current_required = state.progress.total_required)

\* ------------------------------------------- claims on the runner's state

\* Step k of the call has come to its end without an error: its
\* onStepComplete has returned.
StepSucceeded(c, k) ==
  \E i \in DOMAIN trace[c] :
    /\ IsCbEnd(trace[c][i], "onStepComplete")
    /\ trace[c][i].step = k
    /\ trace[c][i].err = NoErr

\* C31 as stated: in run(), once step 3 has succeeded, step 4 does not fail
\* with "No requirements in state. Run Step 3 first.", whatever SR the server
\* answered the requirements fetch with.
C31_Step4PreconditionHoldsAfterStep3 ==
  \A c \in Calls :
    (call[c].op = "run" /\ StepSucceeded(c, 3)) =>
      call[c].err # assertRequirements(createInitialState, "Step 4")

\* C32 as stated: whenever state.completed is true, state.step is 6, or it is
\* 5 and the run or runFrom that completed had skipSubmit set.
C32_CompletedOnlyAtLastStep ==
  state.completed =>
    \/ state.step = 6
    \/ /\ state.step = 5
       /\ \E c \in Calls : IsRun(c) /\ call[c].pc = "returned" /\ call[c].skipSubmit

\* C33 as stated: a run or runFrom that has raised an error leaves a state
\* with completed = false, also on a runner that completed an earlier run.
C33_FailedRunLeavesNotCompleted ==
  \A c \in Calls : (IsRun(c) /\ call[c].pc = "threw") => ~state.completed

PreconditionFailed(c) ==
  /\ call[c].step >= 1
  /\ call[c].pc \in {"stepThrew", "threw"}
  /\ ~TransportFailed(c)
  /\ (StepsStarted(c) = <<>> \/ StepsStarted(c)[Len(StepsStarted(c))] # call[c].step)

Raises(c) ==
  /\ IsRun(c)'
  /\ call'[c].pc = "threw"
  /\ (call[c].pc = "stepThrew" \/ ops' # ops)

\* In this step the catch block of the run or runFrom call c rethrows.
Rethrows(c) == IsRun(c) /\ call[c].pc = "stepThrew" /\ call'[c].pc = "threw"

Invocations(c, name, k) ==
  Cardinality({i \in DOMAIN trace[c] : IsCb(trace[c][i], name) /\ trace[c][i].step = k})

\* runStepN for step k of the call has settled.
StepOver(c, k) ==
  call[c].step # k \/ call[c].pc \in {"next", "stepThrew", "threw", "returned"}

\* C36 as stated: for every step for which onStepStart was invoked, exactly
\* one of onStepComplete and onStepError is invoked for that step, never both
\* and never neither, also when a callback fails.
C36_ExactlyOneOfCompleteAndError ==
  \A c \in Calls, k \in 1..TOTAL_STEPS :
    (Invocations(c, "onStepStart", k) >= 1 /\ StepOver(c, k)) =>
      Invocations(c, "onStepComplete", k) + Invocations(c, "onStepError", k) = 1

\* ---------------------------------------------- claims on the state object

\* C37: a snapshot obtained from getState, or returned by run / runFrom, is
\* never altered by a later operation of the runner: the object it refers to
\* and the errors and uploadedSides arrays of that object show what they
\* showed when the snapshot was handed out.
C37_SnapshotsAreNeverAltered ==
  \A s \in mem.snaps : Shown(mem, s.obj) = s.seen

\* A snapshot was handed out, then an error was recorded and uploaded sides
\* were stored: the runner's state shows them, the snapshot does not.
C37_Witness ==
  \E s \in mem.snaps :
    /\ s.seen.errors = <<>> /\ s.seen.uploadedSides = <<>>
    /\ Shown(mem, mem.cur).errors # <<>>
    /\ Shown(mem, mem.cur).uploadedSides # <<>>
    /\ Shown(mem, s.obj) = s.seen

\* --------------------------------------------- claims on overlapping runs

\* In this step the call c issues a transport call of one of the steps 3..6.
IssuesForSr(c) ==
  /\ trace'[c] # trace[c]
  /\ trace'[c] # <<>>
  /\ trace'[c][Len(trace'[c])].kind = "call"
  /\ trace'[c][Len(trace'[c])].step >= 3

\* The other of the two calls.
Other(c) == CHOOSE d \in Calls : d # c

\* C38: with two run() calls overlapping on one runner, each transport call
\* of the steps 3..6 is made for the SR UUID that is in the shared state at
\* that moment, and the gate of step 6 is decided by the progress that is in
\* the shared state at that moment, whichever call stored them: no lock
\* ties a call to the SR it created, so a step of one call can work on the
\* SR of the other.
C38_StepsReadTheSharedState ==
  [][ \A c \in Calls :
        /\ IssuesForSr(c) => trace'[c][Len(trace'[c])].sr = state'.sr_uuid
        /\ (call'[c].step = 6 /\ call[c].step # 6) =>
             (call'[c].pc = "stepThrew" <=> (state.progress.defined /\ ~state.progress.met))
    ]_vars

\* One call has fetched the requirements of the SR that the other call
\* created, while its own SR exists.
C38_Witness ==
  \E c \in Calls :
    /\ Succeeded(c, "create")
    /\ \E i \in DOMAIN trace[c] :
         /\ trace[c][i].kind = "call"
         /\ trace[c][i].step = 3
         /\ trace[c][i].sr = CreatedUuid(Other(c))

\* ------------------------------------------ claims on the webhook base fields

\* C39 as stated: every event parseWebhookEvent returns has sr_uuid a string,
\* timestamp a string and reference_id a string or null.
C39_ReturnedBaseFieldsWellTyped ==
  (webhook.pc # "idle" /\ ~webhook.result.threw) =>
    /\ webhook.result.value.sr_uuid.t = "string"
    /\ webhook.result.value.timestamp.t = "string"
    /\ webhook.result.value.reference_id.t \in {"string", "null"}

\* ------------------------------------------- claims on withRetry's bounds

\* C40 as stated: for any value of attempts withRetry invokes the operation
\* at least once and at most max(attempts, 1) times, and an error it rejects
\* with is one that an invocation of the operation raised.
C40_InvokedBetweenOnceAndAttempts ==
  (retry.pc # "idle") =>
    /\ RetryCount("fn") >= 1
    /\ RetryCount("fn") <= (IF retry.attempts >= 1 THEN retry.attempts ELSE 1)
    /\ (retry.pc = "rejected") =>
         \E i \in DOMAIN retry.log :
           retry.log[i].kind = "fail" /\ retry.log[i].err = retry.error

====
